---------------------------- MODULE Spec2Model ----------------------------
(***************************************************************************)
(* Lunar-Lander: the fixed-timestep game loop, the game state machine,     *)
(* landing / crash resolution, high-score persistence and debris.          *)
(*                                                                         *)
(* Numbers are fixed point, so that TLC's integers can carry them:         *)
(*   positions            centi-pixels        (1 px    = 100)              *)
(*   velocities           milli-pixels / s    (1 px/s  = 1000)             *)
(*   rotation             centi-radians measured from upright, i.e. the    *)
(*                        field holds (rotation + PI/2) * 100              *)
(*   fuel                 tenths of a fuel unit                            *)
(*   gravity              1/100 m/s^2 ;  thrust N ;  mass kg               *)
(*   pad multiplier       tenths                                           *)
(*   scoreMultiplier      1/10000                                          *)
(*   deltaTime of an update        1/3000 s   (1 ms = 3, 1/60 s = 50)      *)
(*   the loop's accumulator        a double, see below                     *)
(*   clock (performance.now(), frame timestamps)   ms                      *)
(*   sines and cosines    1/10000                                          *)
(***************************************************************************)
EXTENDS Integers, Sequences, FiniteSets, TLC

\* the NaN of parseInt: a value no score or stored number takes
NaN == -2147483647

Abs(x) == IF x < 0 THEN -x ELSE x
Max(a, b) == IF a > b THEN a ELSE b
Min(a, b) == IF a < b THEN a ELSE b
\* a / b rounded to the nearest integer (b > 0)
RDiv(a, b) == (2 * a + b) \div (2 * b)

(***************************************************************************)
(* Program constants                                                       *)
(***************************************************************************)
FOOT_LEFT_X == -15
FOOT_LEFT_Y == 20
FOOT_RIGHT_X == 15
FOOT_RIGHT_Y == 20
BODY_HEIGHT == 20
TARGET_FPS == 60
TIME_SCALE == 745
PIXELS_PER_METER == 2
ROTATION_SPEED == 5
FUEL_CONSUMPTION_THRUST == 10
FUEL_CONSUMPTION_ROTATE == 2
INPUT_DELAY == 200
WAIT_TIME == 5000
TIMESTEP == 50
maxSafeVelocity == 8000
maxSafeRotation == 30
DEBRIS_BURST == 10
DEBRIS_GRAVITY == 5
LANDER_START_Y == 100

DIFFICULTY_SETTINGS ==
  [ EASY   |-> [gravity |-> 162, thrust |-> 4860, mass |-> 1000,
                initialFuel |-> 10000, scoreMultiplier |-> 5000],
    NORMAL |-> [gravity |-> 162, thrust |-> 4860, mass |-> 1000,
                initialFuel |-> 5000, scoreMultiplier |-> 10000],
    HARD   |-> [gravity |-> 250, thrust |-> 4860, mass |-> 1000,
                initialFuel |-> 3000, scoreMultiplier |-> 20000],
    CUSTOM |-> [gravity |-> 162, thrust |-> 4860, mass |-> 1000,
                initialFuel |-> 5000, scoreMultiplier |-> 10000] ]

CUSTOM_SETTINGS_RANGES ==
  [ gravity     |-> [min |-> 100,  max |-> 1000,  step |-> 10],
    thrust      |-> [min |-> 1000, max |-> 10000, step |-> 100],
    initialFuel |-> [min |-> 1000, max |-> 20000, step |-> 500] ]

\* the order of the difficulty menu
difficulties == <<"EASY", "NORMAL", "HARD", "CUSTOM">>

(***************************************************************************)
(* Math.sin / Math.cos.  SinSeries takes an angle of [0, PI/2] in 1/10000  *)
(* radian (Taylor series to x^9); SinR reduces any angle to that range.    *)
(* Sin and Cos take centi-radians.  Results are in 1/10000.                *)
(***************************************************************************)
\* the next odd power: x^(k+2) from p = x^k and x2 = x^2
NextPower(p, x2) == ((p \div 10) * x2) \div 1000

SinTerms(x, t3, t5, t7, t9) ==
  Min(10000, x - RDiv(t3, 6) + RDiv(t5, 120) - RDiv(t7, 5040) + RDiv(t9, 362880))

SinFrom7(x, x2, t3, t5, t7) == SinTerms(x, t3, t5, t7, NextPower(t7, x2))
SinFrom5(x, x2, t3, t5) == SinFrom7(x, x2, t3, t5, NextPower(t5, x2))
SinFrom3(x, x2, t3) == SinFrom5(x, x2, t3, (t3 * x2) \div 10000)
SinFrom1(x, x2) == SinFrom3(x, x2, (x * x2) \div 10000)
SinSeries(x) == SinFrom1(x, (x * x) \div 10000)

\* r in (-PI, PI]
SinReduced(r) ==
  IF r < 0
  THEN -SinSeries(IF r < -15708 THEN 31416 + r ELSE -r)
  ELSE SinSeries(IF r > 15708 THEN 31416 - r ELSE r)

SinR(a) == SinReduced(((a + 31416) % 62832) - 31416)

Sin(a) == SinR(a * 100)
Cos(a) == SinR(a * 100 + 15708)

(***************************************************************************)
(* IEEE-754 doubles, for the loop's deltaTime and accumulator.  Every      *)
(* value the loop computes is a multiple of 2^-62 s below 2^10 s, so a     *)
(* double is held exactly as the integer number of 2^-62 s it stands for,  *)
(* in three limbs of 21 bits: l2 * 2^42 + l1 * 2^21 + l0, with l0 and l1   *)
(* in 0 .. 2^21 - 1 and l2 carrying the sign.  The operations round to 53  *)
(* significant bits, to nearest, ties to even.                             *)
(***************************************************************************)
Limb == 2^21

\* carries propagated, so that l0 and l1 are within a limb
Norm(l2, l1, l0) ==
  [l2 |-> l2 + ((l1 + (l0 \div Limb)) \div Limb),
   l1 |-> (l1 + (l0 \div Limb)) % Limb,
   l0 |-> l0 % Limb]

DZero == [l2 |-> 0, l1 |-> 0, l0 |-> 0]
ExactAdd(a, b) == Norm(a.l2 + b.l2, a.l1 + b.l1, a.l0 + b.l0)
ExactSub(a, b) == Norm(a.l2 - b.l2, a.l1 - b.l1, a.l0 - b.l0)
Neg(a) == Norm(-a.l2, -a.l1, -a.l0)
IsNeg(a) == a.l2 < 0
\* a >= b and a < b on the exact values
DGeq(a, b) == ~IsNeg(ExactSub(a, b))
DLess(a, b) == IsNeg(ExactSub(a, b))

\* the number of bits of n >= 0
RECURSIVE BitLength(_)
BitLength(n) == IF n = 0 THEN 0 ELSE 1 + BitLength(n \div 2)

\* m >= 0 rounded to 53 significant bits; sticky says that m stands for a
\* value slightly above it.  Only the low k <= 20 bits are dropped.
RoundBits(m, k, sticky) ==
  LET q == 2^k
      r == m.l0 % q
      down == [m EXCEPT !.l0 = @ - r]
      up == (2 * r > q) \/ (2 * r = q /\ (sticky \/ ((m.l0 \div q) % 2 = 1)))
  IN  IF up THEN Norm(down.l2, down.l1, down.l0 + q) ELSE down

RoundMagnitude(m, sticky) ==
  IF BitLength(m.l2) > 11 THEN RoundBits(m, BitLength(m.l2) - 11, sticky) ELSE m

Round53(a) == IF IsNeg(a) THEN Neg(RoundMagnitude(Neg(a), FALSE))
              ELSE RoundMagnitude(a, FALSE)

\* the doubles a + b and a - b
DAdd(a, b) == Round53(ExactAdd(a, b))
DSub(a, b) == Round53(ExactSub(a, b))

\* n / d for integers 0 <= n and 0 < d <= 1000 with n / d in [2^-10, 2^9):
\* the quotient to 63 fractional bits by long division, rounded with the
\* remainder as sticky bit, then halved into units of 2^-62
DivDigits(ip, d1, r1, d) ==
  [l2 |-> ip * Limb + d1, l1 |-> (r1 * Limb) \div d,
   l0 |-> (((r1 * Limb) % d) * Limb) \div d,
   sticky |-> (((r1 * Limb) % d) * Limb) % d # 0]

Halve(a) == Norm(a.l2 \div 2, (a.l2 % 2) * (Limb \div 2) + a.l1 \div 2,
                 (a.l1 % 2) * (Limb \div 2) + a.l0 \div 2)

RoundQuotient(qd) ==
  Halve(RoundMagnitude([l2 |-> qd.l2, l1 |-> qd.l1, l0 |-> qd.l0], qd.sticky))

DDivPos(n, d) ==
  IF n = 0 THEN DZero
  ELSE RoundQuotient(DivDigits(n \div d, ((n % d) * Limb) \div d,
                               ((n % d) * Limb) % d, d))

\* the double n / d for integers n and d > 0
DDiv(n, d) == IF n < 0 THEN Neg(DDivPos(-n, d)) ELSE DDivPos(n, d)

\* TIMESTEP = 1 / 60 as the double the loop compares and subtracts
TIMESTEP_D == DDiv(1, 60)

(***************************************************************************)
(* The browser window (window.innerWidth / innerHeight, read by the        *)
(* GameLoop constructor and by Debris.update), in pixels.                  *)
(***************************************************************************)
viewport == [width |-> 200, height |-> 200]

(***************************************************************************)
(* Terrains that `new Terrain(200, 200)` can generate (points in           *)
(* centi-pixels, pad indices as in the code, 0-based; multipliers in       *)
(* tenths).  points[i] of the code is Point(t, i).                         *)
(*   1: a pad under the spawn column (x in [84, 184] px at y = 124 px)     *)
(*   2: no pad under the spawn column (sloping ground)                     *)
(***************************************************************************)
Terrains ==
  << [ points |-> << [x |-> 0, y |-> 10000], [x |-> -1625, y |-> 10750],
                     [x |-> -3250, y |-> 11500], [x |-> -6500, y |-> 13000],
                     [x |-> -13000, y |-> 16000], [x |-> -9000, y |-> 16000],
                     [x |-> -6825, y |-> 15550], [x |-> -4650, y |-> 15100],
                     [x |-> -300, y |-> 14200], [x |-> 8400, y |-> 12400],
                     [x |-> 18400, y |-> 12400], [x |-> 21050, y |-> 13050],
                     [x |-> 23700, y |-> 13700], [x |-> 29000, y |-> 15000],
                     [x |-> 33000, y |-> 15000], [x |-> 31375, y |-> 14375],
                     [x |-> 29750, y |-> 13750], [x |-> 26500, y |-> 12500],
                     [x |-> 20000, y |-> 10000] >>,
       pads |-> << [startIndex |-> 4, endIndex |-> 5, multiplier |-> 152],
                   [startIndex |-> 9, endIndex |-> 10, multiplier |-> 2],
                   [startIndex |-> 13, endIndex |-> 14, multiplier |-> 138] >> ],
     [ points |-> << [x |-> 0, y |-> 10000], [x |-> -1625, y |-> 10500],
                     [x |-> -3250, y |-> 11000], [x |-> -6500, y |-> 12000],
                     [x |-> -13000, y |-> 14000], [x |-> -9000, y |-> 14000],
                     [x |-> -6250, y |-> 13750], [x |-> -3500, y |-> 13500],
                     [x |-> 2000, y |-> 13000], [x |-> 13000, y |-> 12000],
                     [x |-> 23000, y |-> 12000], [x |-> 24750, y |-> 12750],
                     [x |-> 26500, y |-> 13500], [x |-> 30000, y |-> 15000],
                     [x |-> 34000, y |-> 15000], [x |-> 32250, y |-> 14375],
                     [x |-> 30500, y |-> 13750], [x |-> 27000, y |-> 12500],
                     [x |-> 20000, y |-> 10000] >>,
       pads |-> << [startIndex |-> 4, endIndex |-> 5, multiplier |-> 75],
                   [startIndex |-> 9, endIndex |-> 10, multiplier |-> 2],
                   [startIndex |-> 13, endIndex |-> 14, multiplier |-> 175] >> ] >>

Point(t, i) == Terrains[t].points[i + 1]
NumPoints(t) == Len(Terrains[t].points)

(***************************************************************************)
(* Vector2                                                                 *)
(***************************************************************************)
Vec(x, y) == [x |-> x, y |-> y]
VAdd(a, b) == [x |-> a.x + b.x, y |-> a.y + b.y]

(***************************************************************************)
(* Physics.  dt is in 1/3000 s; velocities in milli-pixels / s.            *)
(***************************************************************************)
\* v + (0, gravityPx) * (dt * TIME_SCALE)
applyGravity(velocity, gravityAccel, dt) ==
  VAdd(velocity,
       Vec(0, (((gravityAccel * PIXELS_PER_METER * TIME_SCALE) \div 10) * dt)
                \div 3000))

\* v + (cos(angle), sin(angle)) * (thrust / mass * PIXELS_PER_METER * dt *
\* TIME_SCALE); the angle of the code is rotation - PI/2 of the model, so
\* cos(angle) = Sin(rotation) and sin(angle) = -Cos(rotation)
applyThrust(velocity, rotation, thrustForce, mass, dt) ==
  LET mag == ((((thrustForce * PIXELS_PER_METER * TIME_SCALE) \div mass) * dt)
               \div 300)
  IN  VAdd(velocity, Vec(RDiv(mag * Sin(rotation), 10000) ,
                         -RDiv(mag * Cos(rotation), 10000)))

\* the bounding boxes of the segments p1-p2 and p3-p4 overlap
BoxesMeet(p1, p2, p3, p4) ==
  /\ Max(p1.x, p2.x) >= Min(p3.x, p4.x)
  /\ Max(p3.x, p4.x) >= Min(p1.x, p2.x)
  /\ Max(p1.y, p2.y) >= Min(p3.y, p4.y)
  /\ Max(p3.y, p4.y) >= Min(p1.y, p2.y)

\* TRUE iff the code returns an intersection point (a non-null result):
\* denom # 0 and both ua and ub lie in [0, 1].  Segments whose bounding
\* boxes are apart have no such point; leaving them out first keeps the
\* products within the integers of the model checker.
checkLineIntersection(p1, p2, p3, p4) ==
  /\ BoxesMeet(p1, p2, p3, p4)
  /\ LET denom == (p4.y - p3.y) * (p2.x - p1.x) - (p4.x - p3.x) * (p2.y - p1.y)
         na == (p4.x - p3.x) * (p1.y - p3.y) - (p4.y - p3.y) * (p1.x - p3.x)
         nb == (p2.x - p1.x) * (p1.y - p3.y) - (p2.y - p1.y) * (p1.x - p3.x)
         InUnit(n) == IF denom > 0 THEN 0 <= n /\ n <= denom
                      ELSE denom <= n /\ n <= 0
     IN  denom # 0 /\ InUnit(na) /\ InUnit(nb)

(***************************************************************************)
(* GameState                                                               *)
(***************************************************************************)
GameStatus == {"WAITING", "PLAYING", "LANDED", "CRASHED",
               "SELECTING_DIFFICULTY", "SETTING_CUSTOM_DIFFICULTY"}

\* new GameState()
NewGameState == [status |-> "SELECTING_DIFFICULTY", score |-> 0, fuel |-> 5000,
                 highScore |-> 0, difficulty |-> "NORMAL"]

consumeFuel(gs, amount) == [gs EXCEPT !.fuel = Max(0, @ - amount)]
\* a tank that never reads empty
isFuelEmpty_Never(gs) == FALSE

isFuelEmpty(gs) == gs.fuel <= 0

(***************************************************************************)
(* Lander.  The operators below work on the "world" w, a record of all the *)
(* objects a GameLoop owns:                                                *)
(*   gameState, lander, terrain (an index into Terrains), debris,          *)
(*   gl (the GameLoop's own fields), custom (DIFFICULTY_SETTINGS.CUSTOM,   *)
(*   which the custom-settings screen mutates), storage (localStorage),    *)
(*   and two history fields: hit (the collision result of the last         *)
(*   PLAYING step, with the craft as it was then) and trace (the calls     *)
(*   made by the handler that is running).                                 *)
(* The environment of one handler is the record e: now (performance.now), *)
(* input (the KeyboardInput flags), terrain and seed (the random draws of  *)
(* new Terrain and of the debris velocities), readThrows / writeThrows     *)
(* (whether localStorage.getItem / setItem throw).                         *)
(***************************************************************************)
\* new Lander(viewport.width / 2, 100)
NewLander ==
  [position |-> Vec((viewport.width * 100) \div 2, LANDER_START_Y * 100),
   previousPosition |-> Vec((viewport.width * 100) \div 2, LANDER_START_Y * 100),
   velocity |-> Vec(0, 0), rotation |-> 0, previousRotation |-> 0]

Log(w, op, arg) == [w EXCEPT !.trace = Append(@, [op |-> op, arg |-> arg])]

\* DIFFICULTY_SETTINGS[difficulty]
SettingsOf(w, difficulty) ==
  IF difficulty = "CUSTOM" THEN w.custom ELSE DIFFICULTY_SETTINGS[difficulty]

\* velocity.multiply(deltaTime * TIME_SCALE), in centi-pixels
Displacement(velocity, dt) ==
  Vec(RDiv(((velocity.x * TIME_SCALE) \div 1000) * dt, 3000),
      RDiv(((velocity.y * TIME_SCALE) \div 1000) * dt, 3000))

\* ROTATION_SPEED * frameScale and FUEL_CONSUMPTION_x * frameScale
PerFrame(amount, dt) == (amount * TARGET_FPS * dt) \div 3000

\* previousPosition = position.clone(); previousRotation = rotation
Snapshot(lander) ==
  [lander EXCEPT !.previousPosition = lander.position,
                 !.previousRotation = lander.rotation]

\* Lander.update after the snapshot l0
Integrate(w, l0, input, dt) ==
  LET settings == SettingsOf(w, w.gameState.difficulty)
      w0 == Log(w, "Lander.update", dt)
  IN  IF isFuelEmpty(w.gameState)
      THEN LET v == applyGravity(l0.velocity, settings.gravity, dt)
           IN  [w0 EXCEPT !.lander = [l0 EXCEPT !.velocity = v,
                                 !.position = VAdd(l0.position, Displacement(v, dt))]]
      ELSE
        LET rot1 == IF input.isRotatingLeft
                    THEN l0.rotation - PerFrame(ROTATION_SPEED, dt) ELSE l0.rotation
            gs1 == IF input.isRotatingLeft
                   THEN consumeFuel(w.gameState, PerFrame(FUEL_CONSUMPTION_ROTATE, dt))
                   ELSE w.gameState
            rot2 == IF input.isRotatingRight
                    THEN rot1 + PerFrame(ROTATION_SPEED, dt) ELSE rot1
            gs2 == IF input.isRotatingRight
                   THEN consumeFuel(gs1, PerFrame(FUEL_CONSUMPTION_ROTATE, dt))
                   ELSE gs1
            v1 == IF input.isThrusting
                  THEN applyThrust(l0.velocity, rot2, settings.thrust, settings.mass, dt)
                  ELSE l0.velocity
            gs3 == IF input.isThrusting
                   THEN consumeFuel(gs2, PerFrame(FUEL_CONSUMPTION_THRUST, dt))
                   ELSE gs2
            v2 == applyGravity(v1, settings.gravity, dt)
        IN  [w0 EXCEPT !.gameState = gs3,
                       !.lander = [l0 EXCEPT !.rotation = rot2, !.velocity = v2,
                                 !.position = VAdd(l0.position, Displacement(v2, dt))]]

\* Lander.update without the snapshot
Lander_update_StaleSweep(w, input, dt) == Integrate(w, w.lander, input, dt)

Lander_update(w, input, dt) == Integrate(w, Snapshot(w.lander), input, dt)

(***************************************************************************)
(* CollisionDetector                                                       *)
(***************************************************************************)
\* the offset (x, y) px turned by an angle of cosine c and sine s
Turned(x, y, c, s) == Vec(RDiv(x * c - y * s, 100), RDiv(x * s + y * c, 100))

\* transform(x, y): the foot at body offset (x, y) px of a craft at pos,
\* rotated by rot
FootAt(pos, rot, x, y) == VAdd(pos, Turned(x, y, Cos(rot), Sin(rot)))

calculateFootPositions(lander) ==
  [leftFoot |-> FootAt(lander.position, lander.rotation, FOOT_LEFT_X, FOOT_LEFT_Y),
   rightFoot |-> FootAt(lander.position, lander.rotation, FOOT_RIGHT_X, FOOT_RIGHT_Y),
   prevLeftFoot |-> FootAt(lander.previousPosition, lander.previousRotation,
                           FOOT_LEFT_X, FOOT_LEFT_Y),
   prevRightFoot |-> FootAt(lander.previousPosition, lander.previousRotation,
                            FOOT_RIGHT_X, FOOT_RIGHT_Y)]

\* the segments, in index order
Segments(t) == 0 .. (NumPoints(t) - 2)

\* the sweep from prev to foot crosses segment i
SweepHit(prev, foot, t, i) ==
  checkLineIntersection(prev, foot, Point(t, i), Point(t, i + 1))

\* the foot result null
NoFoot == [segmentIndex |-> -1, isLeftFoot |-> FALSE]

RECURSIVE ScanFeet_RightFirst(_, _, _)
\* the loop of checkFootCollisions with the right foot checked first
ScanFeet_RightFirst(f, t, i) ==
  IF i > NumPoints(t) - 2 THEN NoFoot
  ELSE IF SweepHit(f.prevRightFoot, f.rightFoot, t, i)
  THEN [segmentIndex |-> i, isLeftFoot |-> FALSE]
  ELSE IF SweepHit(f.prevLeftFoot, f.leftFoot, t, i)
  THEN [segmentIndex |-> i, isLeftFoot |-> TRUE]
  ELSE ScanFeet_RightFirst(f, t, i + 1)

RECURSIVE ScanFeet(_, _, _)
\* the loop of checkFootCollisions from segment i on: the left foot, then
\* the right foot, segment by segment
ScanFeet(f, t, i) ==
  IF i > NumPoints(t) - 2 THEN NoFoot
  ELSE IF SweepHit(f.prevLeftFoot, f.leftFoot, t, i)
  THEN [segmentIndex |-> i, isLeftFoot |-> TRUE]
  ELSE IF SweepHit(f.prevRightFoot, f.rightFoot, t, i)
  THEN [segmentIndex |-> i, isLeftFoot |-> FALSE]
  ELSE ScanFeet(f, t, i + 1)

\* the least index of a non-empty set of segment indices, -1 (null) for none
FirstOf(hits) == IF hits = {} THEN -1 ELSE CHOOSE i \in hits : \A j \in hits : i <= j

\* the first foot hit, or NoFoot (null)
checkFootCollisions(lander, t) == ScanFeet(calculateFootPositions(lander), t, 0)

checkBodyCollision(lander, t) ==
  \E i \in Segments(t) :
     checkLineIntersection(lander.previousPosition, lander.position,
                           Point(t, i), Point(t, i + 1))

\* the result for the foot result foot
CollisionResult(foot, lander, t) ==
  IF foot # NoFoot
  THEN [type |-> "foot", segmentIndex |-> foot.segmentIndex,
        isLeftFoot |-> foot.isLeftFoot]
  ELSE IF checkBodyCollision(lander, t)
       THEN [type |-> "body", segmentIndex |-> -1, isLeftFoot |-> FALSE]
       ELSE [type |-> "none", segmentIndex |-> -1, isLeftFoot |-> FALSE]

checkLanderTerrainCollision(lander, t) ==
  CollisionResult(checkFootCollisions(lander, t), lander, t)

\* wraps x once; the floor is left to the caller
checkBoundaries(lander, width, height) ==
  LET x1 == IF lander.position.x < 0 THEN lander.position.x + width
            ELSE lander.position.x
      x2 == IF x1 > width THEN x1 - width ELSE x1
  IN  [lander EXCEPT !.position.x = x2]

(***************************************************************************)
(* Strings (sequences of one-character strings), parseInt(s, 10) and       *)
(* Number.prototype.toString for integers.                                 *)
(***************************************************************************)
Digits == <<"0", "1", "2", "3", "4", "5", "6", "7", "8", "9">>
IsDigit(c) == \E d \in 1..10 : Digits[d] = c
DigitValue(c) == (CHOOSE d \in 1..10 : Digits[d] = c) - 1

RECURSIVE DigitsOf(_)
DigitsOf(n) == IF n < 10 THEN <<Digits[n + 1]>>
               ELSE Append(DigitsOf(n \div 10), Digits[(n % 10) + 1])

NumberToString(n) == IF n < 0 THEN <<"-">> \o DigitsOf(-n) ELSE DigitsOf(n)

\* the value of the longest digit prefix of s from position i, given the
\* value acc of the digits read so far
RECURSIVE ReadDigits(_, _, _)
ReadDigits(s, i, acc) ==
  IF i <= Len(s) /\ IsDigit(s[i])
  THEN ReadDigits(s, i + 1, acc * 10 + DigitValue(s[i]))
  ELSE acc

RECURSIVE SkipSpaces(_, _)
SkipSpaces(s, i) == IF i <= Len(s) /\ s[i] = " " THEN SkipSpaces(s, i + 1) ELSE i

\* parseInt(s, 10): leading white space, an optional sign, then the longest
\* run of digits; NaN when there is no digit there
parseInt(s) ==
  LET i == SkipSpaces(s, 1)
      signed == i <= Len(s) /\ s[i] \in {"-", "+"}
      j == IF signed THEN i + 1 ELSE i
  IN  IF j <= Len(s) /\ IsDigit(s[j])
      THEN IF signed /\ s[i] = "-" THEN -ReadDigits(s, j, 0) ELSE ReadDigits(s, j, 0)
      ELSE NaN

\* a > b on JavaScript numbers: false when either side is NaN
Greater(a, b) == a # NaN /\ b # NaN /\ a > b

(***************************************************************************)
(* GameStateManager                                                        *)
(***************************************************************************)
\* localStorage.getItem(HIGH_SCORE_KEY) is storage.value when storage.present,
\* null otherwise; an empty string is falsy like null
loadHighScore(w, e) ==
  IF e.readThrows THEN 0
  ELSE IF w.storage.present /\ w.storage.value # <<>>
       THEN parseInt(w.storage.value)
       ELSE 0

initialize(w, e) ==
  [Log(w, "getItem", IF e.readThrows THEN 0 ELSE 1)
     EXCEPT !.gameState.highScore = loadHighScore(w, e)]

\* localStorage.setItem(HIGH_SCORE_KEY, Math.floor(score).toString()); a
\* throwing store leaves the key as it was
saveHighScore(w, e, score) ==
  IF e.writeThrows THEN Log(w, "setItem", 0)
  ELSE [Log(w, "setItem", 1)
          EXCEPT !.storage = [present |-> TRUE, value |-> NumberToString(score)]]

isSafeToLand(lander) ==
  /\ Abs(lander.velocity.x) < maxSafeVelocity
  /\ Abs(lander.velocity.y) < maxSafeVelocity
  /\ lander.velocity.x * lander.velocity.x + lander.velocity.y * lander.velocity.y
       < maxSafeVelocity * maxSafeVelocity
  /\ Abs(lander.rotation) < maxSafeRotation

\* the high-score check with >= for >
RecordHighScore_AtLeast(w, e) ==
  IF w.gameState.highScore # NaN /\ w.gameState.score >= w.gameState.highScore
  THEN saveHighScore([w EXCEPT !.gameState.highScore = w.gameState.score], e,
                     w.gameState.score)
  ELSE w

\* if (score > highScore) { highScore = score; saveHighScore(highScore) }
RecordHighScore(w, e) ==
  IF Greater(w.gameState.score, w.gameState.highScore)
  THEN saveHighScore([w EXCEPT !.gameState.highScore = w.gameState.score], e,
                     w.gameState.score)
  ELSE w

\* terrain.pads.find(p => segmentIndex >= p.startIndex && segmentIndex < p.endIndex):
\* the position of the first such pad in pads, -1 when there is none
FindPad(t, segmentIndex) ==
  LET pads == Terrains[t].pads
  IN  FirstOf({k \in 1..Len(pads) : segmentIndex >= pads[k].startIndex
                                    /\ segmentIndex < pads[k].endIndex})

\* the landing score without the base of 100
LandingScore_NoBase(fuel, multiplier) == (fuel * multiplier) \div 1000

\* Math.floor((100 + fuel / 10) * multiplier)
LandingScore(fuel, multiplier) == ((10000 + fuel) * multiplier) \div 1000

\* handleLanding accepting any touch-down on a pad
handleLanding_AnyAttitude(w, e, segmentIndex) ==
  LET k == FindPad(w.terrain, segmentIndex)
      w0 == Log(w, "handleLanding", segmentIndex)
  IN  IF k # -1
      THEN LET pad == Terrains[w.terrain].pads[k]
               w1 == [w0 EXCEPT !.gameState.status = "LANDED",
                                !.gameState.score =
                                   @ + LandingScore(w.gameState.fuel, pad.multiplier)]
               w2 == RecordHighScore(w1, e)
           IN  [w2 EXCEPT !.lander.position.y =
                             Point(w.terrain, segmentIndex).y - BODY_HEIGHT * 100,
                          !.lander.velocity = Vec(0, 0),
                          !.lander.rotation = 0]
      ELSE w0

handleLanding(w, e, segmentIndex) ==
  LET k == FindPad(w.terrain, segmentIndex)
      w0 == Log(w, "handleLanding", segmentIndex)
  IN  IF k # -1 /\ isSafeToLand(w.lander)
      THEN LET pad == Terrains[w.terrain].pads[k]
               w1 == [w0 EXCEPT !.gameState.status = "LANDED",
                                !.gameState.score =
                                   @ + LandingScore(w.gameState.fuel, pad.multiplier)]
               w2 == RecordHighScore(w1, e)
           IN  [w2 EXCEPT !.lander.position.y =
                             Point(w.terrain, segmentIndex).y - BODY_HEIGHT * 100,
                          !.lander.velocity = Vec(0, 0),
                          !.lander.rotation = 0]
      ELSE w0

\* the state change of handleCrash
handleCrash(w, e) ==
  RecordHighScore([Log(w, "handleCrash", 0) EXCEPT !.gameState.status = "CRASHED"], e)

\* the array handleCrash returns: the positions of its debris
CrashDebris(w) == [i \in 1..DEBRIS_BURST |-> w.lander.position]

(***************************************************************************)
(* Debris and DebrisManager.  Debris velocities are centi-pixels per       *)
(* update.                                                                 *)
(***************************************************************************)
\* velocities (cos(angle), sin(angle)) * speed that Math.random() can give
\* for angle in [0, 2 PI) and speed in [1, 4)
DebrisVelocities == << Vec(100, 0), Vec(0, -150), Vec(-300, 0), Vec(0, 250),
                       Vec(141, 141), Vec(-212, -212) >>

\* the velocity drawn for the i-th particle of a burst
DrawVelocity(seed, i) == DebrisVelocities[((seed + i) % Len(DebrisVelocities)) + 1]

Debris_update(d) ==
  IF ~d.active THEN d
  ELSE LET v == Vec(d.velocity.x, d.velocity.y + DEBRIS_GRAVITY)
           p == VAdd(d.position, v)
       IN  [position |-> p, velocity |-> v,
            active |-> ~(p.x < 0 \/ p.x > viewport.width * 100
                                 \/ p.y > viewport.height * 100)]

\* the update of one particle that stops a particle at the ground where
\* it is
DebrisStep_Sunk(d, t) ==
  LET over == {j \in Segments(t) : d.position.x >= Point(t, j).x
                                   /\ d.position.x <= Point(t, j + 1).x}
  IN  IF ~d.active THEN d
      ELSE IF over = {} THEN Debris_update(d)
      ELSE LET j == CHOOSE k \in over : \A m \in over : k <= m
               p1 == Point(t, j)
               p2 == Point(t, j + 1)
           IN  IF p2.x = p1.x THEN Debris_update(d)
               ELSE LET groundY == p1.y + ((d.position.x - p1.x) * (p2.y - p1.y))
                                            \div (p2.x - p1.x)
                    IN  IF d.position.y >= groundY
                        THEN [position |-> d.position,
                              velocity |-> Vec(0, 0), active |-> FALSE]
                        ELSE Debris_update(d)

\* the update of one particle that keeps moving the stopped particles
DebrisStep_Restless(d, t) ==
  IF ~d.active
  THEN [d EXCEPT !.position = VAdd(@, Vec(100, 0))]
  ELSE DebrisStep_Sunk(d, t)

\* the update of one particle: the first segment whose x range holds the
\* particle decides whether it has reached the ground
DebrisStep(d, t) ==
  LET over == {j \in Segments(t) : d.position.x >= Point(t, j).x
                                   /\ d.position.x <= Point(t, j + 1).x}
  IN  IF ~d.active THEN d
      ELSE IF over = {} THEN Debris_update(d)
      ELSE LET j == CHOOSE k \in over : \A m \in over : k <= m
               p1 == Point(t, j)
               p2 == Point(t, j + 1)
           IN  \* p1.x = p2.x makes t and groundY NaN, and y >= NaN false
               IF p2.x = p1.x THEN Debris_update(d)
               ELSE LET groundY == p1.y + ((d.position.x - p1.x) * (p2.y - p1.y))
                                            \div (p2.x - p1.x)
                    IN  IF d.position.y >= groundY
                        THEN [position |-> Vec(d.position.x, groundY),
                              velocity |-> Vec(0, 0), active |-> FALSE]
                        ELSE Debris_update(d)

DebrisManager_update(w) ==
  [Log(w, "DebrisManager.update", 0)
     EXCEPT !.debris = [i \in 1..Len(w.debris) |-> DebrisStep(w.debris[i], w.terrain)]]

\* spawn(position, 1) with the velocity drawn for it
DebrisManager_spawn(debris, position, velocity) ==
  Append(debris, [position |-> position, velocity |-> velocity, active |-> TRUE])

DebrisManager_getAll(debris) == SelectSeq(debris, LAMBDA d : d.active)

DebrisManager_clear == << >>

(***************************************************************************)
(* KeyboardInput                                                           *)
(***************************************************************************)
NoInput == [isRotatingLeft |-> FALSE, isRotatingRight |-> FALSE,
            isThrusting |-> FALSE, isRestarting |-> FALSE, isEscaping |-> FALSE,
            isUp |-> FALSE, isDown |-> FALSE, isConfirm |-> FALSE]

\* the keys KeyboardInput listens to (the arrows; w, a, s, d set the same flags)
Keys == {"ArrowLeft", "ArrowRight", "ArrowUp", "ArrowDown", " ", "Enter", "Escape"}

\* handleKeyDown (held = TRUE) and handleKeyUp (held = FALSE)
handleKey(in, key, held) ==
  CASE key = "ArrowLeft"  -> [in EXCEPT !.isRotatingLeft = held]
    [] key = "ArrowRight" -> [in EXCEPT !.isRotatingRight = held]
    [] key = "ArrowUp"    -> [in EXCEPT !.isThrusting = held, !.isUp = held]
    [] key = "ArrowDown"  -> [in EXCEPT !.isDown = held]
    [] key = " "          -> [in EXCEPT !.isThrusting = held, !.isRestarting = held,
                                        !.isConfirm = held]
    [] key = "Enter"      -> [in EXCEPT !.isConfirm = held]
    [] key = "Escape"     -> [in EXCEPT !.isEscaping = held]
    [] OTHER              -> in

\* an aggregate that never reports a held key
hasAnyInput_Never(in) == FALSE

hasAnyInput(in) ==
  \/ in.isRotatingLeft \/ in.isRotatingRight \/ in.isThrusting \/ in.isRestarting
  \/ in.isEscaping \/ in.isUp \/ in.isDown \/ in.isConfirm

(***************************************************************************)
(* GameLoop                                                                *)
(***************************************************************************)
\* the field initialisers of GameLoop
NewGameLoop ==
  [lastTime |-> 0, isRunning |-> FALSE, accumulator |-> DZero,
   difficultySelectionIndex |-> 1, customSettingsIndex |-> 0, lastInputTime |-> 0,
   waitForKeyRelease |-> FALSE, scoreScreenStartTime |-> 0, restartReady |-> FALSE]

\* resetGame leaving the status of the enum's first member
resetGame_Waiting(w, e) ==
  LET w1 == [Log(w, "resetGame", 0)
               EXCEPT !.gameState = [NewGameState EXCEPT !.status = "WAITING"],
                      !.terrain = e.terrain,
                      !.lander = NewLander,
                      !.debris = DebrisManager_clear]
      w2 == initialize(w1, e)
  IN  [w2 EXCEPT !.gl.scoreScreenStartTime = 0,
                 !.gl.difficultySelectionIndex = 1,
                 !.gl.lastInputTime = e.now,
                 !.gl.waitForKeyRelease = TRUE]

resetGame(w, e) ==
  LET w1 == [Log(w, "resetGame", 0)
               EXCEPT !.gameState = NewGameState,
                      !.terrain = e.terrain,
                      !.lander = NewLander,
                      !.debris = DebrisManager_clear]
      w2 == initialize(w1, e)
  IN  [w2 EXCEPT !.gl.scoreScreenStartTime = 0,
                 !.gl.difficultySelectionIndex = 1,
                 !.gl.lastInputTime = e.now,
                 !.gl.waitForKeyRelease = TRUE]

RECURSIVE SpawnEach(_, _, _, _)
\* debris.forEach(d => debrisManager.spawn(d.position, 1)), from the i-th on
SpawnEach(debris, arr, seed, i) ==
  IF i > Len(arr) THEN debris
  ELSE SpawnEach(DebrisManager_spawn(debris, arr[i], DrawVelocity(seed, i)),
                 arr, seed, i + 1)

\* crash that spawns the burst twice
crash_Twice(w, e) ==
  LET w1 == handleCrash(w, e)
  IN  [w1 EXCEPT !.debris =
         SpawnEach(SpawnEach(w1.debris, CrashDebris(w1), e.seed, 1),
                   CrashDebris(w1), e.seed, 1)]

crash(w, e) ==
  LET w1 == handleCrash(w, e)
  IN  [w1 EXCEPT !.debris = SpawnEach(w1.debris, CrashDebris(w1), e.seed, 1)]

handleLandingOrCrash(w, e, segmentIndex) ==
  LET w1 == handleLanding(w, e, segmentIndex)
  IN  IF w1.gameState.status # "LANDED" THEN crash(w1, e) ELSE w1

\* the floor check that follows checkBoundaries
FloorCheck(w, e) ==
  IF w.lander.position.y > viewport.height * 100 THEN crash(w, e) ELSE w

\* the part of updatePlaying that follows collision detection
AfterCollision(w, e, collision) ==
  IF collision.type = "foot"
  THEN handleLandingOrCrash(w, e, collision.segmentIndex)
  ELSE IF collision.type = "body" THEN crash(w, e)
  ELSE FloorCheck([w EXCEPT !.lander = checkBoundaries(@, viewport.width * 100,
                                                        viewport.height * 100)], e)

\* collision detection on the integrated craft
AfterIntegration(w, e, collision) ==
  AfterCollision([Log(w, "checkLanderTerrainCollision", collision.segmentIndex)
                    EXCEPT !.hit = [type |-> collision.type,
                                    segmentIndex |-> collision.segmentIndex,
                                    isLeftFoot |-> collision.isLeftFoot,
                                    lander |-> w.lander]],
                 e, collision)

Detect(w, e) ==
  AfterIntegration(w, e, checkLanderTerrainCollision(w.lander, w.terrain))

updatePlaying(w, e, dt) == Detect(Lander_update(w, e.input, dt), e)

\* the tank left as the GameState constructor filled it
StartingFuel_Default(settings) == NewGameState.fuel

\* gameState.fuel = settings.initialFuel, at the start of a game
StartingFuel(settings) == settings.initialFuel

updateDifficultySelection(w, e) ==
  IF w.gl.waitForKeyRelease
  THEN IF ~hasAnyInput(e.input) THEN [w EXCEPT !.gl.waitForKeyRelease = FALSE] ELSE w
  ELSE IF e.now - w.gl.lastInputTime > INPUT_DELAY
  THEN LET n == Len(difficulties)
           idx == w.gl.difficultySelectionIndex
           selectedDifficulty == difficulties[idx + 1]
           w1 == IF e.input.isUp
                 THEN [w EXCEPT !.gl.difficultySelectionIndex = (idx - 1 + n) % n,
                                !.gl.lastInputTime = e.now]
                 ELSE IF e.input.isDown
                 THEN [w EXCEPT !.gl.difficultySelectionIndex = (idx + 1) % n,
                                !.gl.lastInputTime = e.now]
                 ELSE IF e.input.isConfirm
                 THEN IF selectedDifficulty = "CUSTOM"
                      THEN [w EXCEPT !.gameState.status = "SETTING_CUSTOM_DIFFICULTY",
                                     !.gl.customSettingsIndex = 0,
                                     !.gl.waitForKeyRelease = TRUE,
                                     !.gl.lastInputTime = e.now]
                      ELSE [w EXCEPT !.gameState.difficulty = selectedDifficulty,
                                     !.gameState.status = "PLAYING",
                                     !.gameState.fuel =
                                        StartingFuel(DIFFICULTY_SETTINGS[selectedDifficulty]),
                                     !.gl.lastInputTime = e.now]
                 ELSE w
       IN  [w1 EXCEPT !.gameState.difficulty =
                         difficulties[w1.gl.difficultySelectionIndex + 1]]
  ELSE w

\* settings.scoreMultiplier, in 1/10000
calculateScoreMultiplier(settings) ==
  LET norm == DIFFICULTY_SETTINGS.NORMAL
      deltaG == settings.gravity - norm.gravity
      deltaT == norm.thrust - settings.thrust
      deltaF == norm.initialFuel - settings.initialFuel
      multiplier == 10000 + deltaG * 100 + deltaT * 2 + deltaF
  IN  [settings EXCEPT !.scoreMultiplier = Max(1000, Min(100000, multiplier))]

\* the new value taken as it is
Clamp_Open(range, v) == v

Clamp(range, v) == Max(range.min, Min(range.max, v))

adjustCustomSetting(w, direction) ==
  LET ranges == CUSTOM_SETTINGS_RANGES
      s == w.custom
      s1 == CASE w.gl.customSettingsIndex = 0 ->
                   [s EXCEPT !.gravity =
                      Clamp(ranges.gravity, @ + ranges.gravity.step * direction)]
              [] w.gl.customSettingsIndex = 1 ->
                   [s EXCEPT !.thrust =
                      Clamp(ranges.thrust, @ + ranges.thrust.step * direction)]
              [] w.gl.customSettingsIndex = 2 ->
                   [s EXCEPT !.initialFuel =
                      Clamp(ranges.initialFuel, @ + ranges.initialFuel.step * direction)]
              [] OTHER -> s
  IN  [w EXCEPT !.custom = calculateScoreMultiplier(s1)]

updateCustomSettings(w, e) ==
  IF w.gl.waitForKeyRelease
  THEN IF ~hasAnyInput(e.input) THEN [w EXCEPT !.gl.waitForKeyRelease = FALSE] ELSE w
  ELSE IF e.now - w.gl.lastInputTime > INPUT_DELAY
  THEN LET itemCount == 5
           idx == w.gl.customSettingsIndex
       IN  IF e.input.isUp
           THEN [w EXCEPT !.gl.customSettingsIndex = (idx - 1 + itemCount) % itemCount,
                          !.gl.lastInputTime = e.now]
           ELSE IF e.input.isDown
           THEN [w EXCEPT !.gl.customSettingsIndex = (idx + 1) % itemCount,
                          !.gl.lastInputTime = e.now]
           ELSE IF e.input.isRotatingLeft
           THEN [adjustCustomSetting(w, -1) EXCEPT !.gl.lastInputTime = e.now]
           ELSE IF e.input.isRotatingRight
           THEN [adjustCustomSetting(w, 1) EXCEPT !.gl.lastInputTime = e.now]
           ELSE IF e.input.isConfirm
           THEN IF idx = 3
                THEN [w EXCEPT !.gameState.difficulty = "CUSTOM",
                               !.gameState.status = "PLAYING",
                               !.gameState.fuel = StartingFuel(w.custom),
                               !.gl.lastInputTime = e.now]
                ELSE IF idx = 4
                THEN [w EXCEPT !.gameState.status = "SELECTING_DIFFICULTY",
                               !.gl.waitForKeyRelease = TRUE,
                               !.gl.lastInputTime = e.now]
                ELSE [w EXCEPT !.gl.lastInputTime = e.now]
           ELSE w
  ELSE w

\* updateGameOver without the restartReady latch
updateGameOver_Unlatched(w, e) ==
  LET w1 == IF w.gl.scoreScreenStartTime = 0
            THEN [w EXCEPT !.gl.scoreScreenStartTime = e.now,
                           !.gl.restartReady = FALSE]
            ELSE w
      elapsed == e.now - w1.gl.scoreScreenStartTime
      canContinue == elapsed >= WAIT_TIME
      w2 == IF ~hasAnyInput(e.input) THEN [w1 EXCEPT !.gl.restartReady = TRUE] ELSE w1
  IN  IF canContinue /\ e.input.isRestarting
      THEN resetGame(w2, e)
      ELSE IF ~canContinue /\ e.input.isEscaping
      THEN resetGame(w2, e)
      ELSE w2

updateGameOver(w, e) ==
  LET w1 == IF w.gl.scoreScreenStartTime = 0
            THEN [w EXCEPT !.gl.scoreScreenStartTime = e.now,
                           !.gl.restartReady = FALSE]
            ELSE w
      elapsed == e.now - w1.gl.scoreScreenStartTime
      canContinue == elapsed >= WAIT_TIME
      w2 == IF ~hasAnyInput(e.input) THEN [w1 EXCEPT !.gl.restartReady = TRUE] ELSE w1
  IN  IF canContinue /\ w2.gl.restartReady /\ e.input.isRestarting
      THEN resetGame(w2, e)
      ELSE IF ~canContinue /\ e.input.isEscaping
      THEN resetGame(w2, e)
      ELSE w2

\* update with the debris moved before the status handler
update_DebrisFirst(w, e, deltaTime) ==
  LET w0 == DebrisManager_update(Log(w, "update", deltaTime))
  IN  CASE w.gameState.status = "SELECTING_DIFFICULTY" ->
             updateDifficultySelection(w0, e)
        [] w.gameState.status = "SETTING_CUSTOM_DIFFICULTY" ->
             updateCustomSettings(w0, e)
        [] w.gameState.status = "PLAYING" -> updatePlaying(w0, e, deltaTime)
        [] w.gameState.status \in {"CRASHED", "LANDED"} -> updateGameOver(w0, e)
        [] OTHER -> w0

\* update that keeps flying the craft on the score screen
update_Flying(w, e, deltaTime) ==
  LET w0 == Log(w, "update", deltaTime)
      w1 == CASE w.gameState.status = "SELECTING_DIFFICULTY" ->
                   updateDifficultySelection(w0, e)
              [] w.gameState.status = "SETTING_CUSTOM_DIFFICULTY" ->
                   updateCustomSettings(w0, e)
              [] w.gameState.status = "PLAYING" -> updatePlaying(w0, e, deltaTime)
              [] w.gameState.status \in {"CRASHED", "LANDED"} ->
                   updateGameOver(Lander_update(w0, e.input, deltaTime), e)
              [] OTHER -> w0
  IN  DebrisManager_update(w1)

update(w, e, deltaTime) ==
  LET w0 == Log(w, "update", deltaTime)
      w1 == CASE w.gameState.status = "SELECTING_DIFFICULTY" ->
                   updateDifficultySelection(w0, e)
              [] w.gameState.status = "SETTING_CUSTOM_DIFFICULTY" ->
                   updateCustomSettings(w0, e)
              [] w.gameState.status = "PLAYING" -> updatePlaying(w0, e, deltaTime)
              [] w.gameState.status \in {"CRASHED", "LANDED"} -> updateGameOver(w0, e)
              [] OTHER -> w0
  IN  DebrisManager_update(w1)

\* the calls of render that reach the renderer: it draws the active debris
\* of a crashed craft only
render(w) ==
  Log(w, "render", IF w.gameState.status = "CRASHED"
                   THEN Len(DebrisManager_getAll(w.debris)) ELSE 0)

requestAnimationFrame(w) ==
  [Log(w, "requestAnimationFrame", 0) EXCEPT !.pending = @ + 1]

start(w, e) ==
  IF ~w.gl.isRunning
  THEN requestAnimationFrame([w EXCEPT !.gl.isRunning = TRUE, !.gl.lastTime = e.now])
  ELSE w

stop(w) == [w EXCEPT !.gl.isRunning = FALSE]

updateOnce(w, e, deltaTime) == update(w, e, deltaTime)

\* the loop with an if in place of the while
RunSteps_Once(w, e) ==
  IF DGeq(w.gl.accumulator, TIMESTEP_D)
  THEN [update(w, e, TIMESTEP) EXCEPT !.gl.accumulator = DSub(@, TIMESTEP_D)]
  ELSE w

RECURSIVE RunSteps(_, _)
\* while (accumulator >= TIMESTEP) { update(TIMESTEP); accumulator -= TIMESTEP }
RunSteps(w, e) ==
  IF DGeq(w.gl.accumulator, TIMESTEP_D)
  THEN RunSteps([update(w, e, TIMESTEP)
                   EXCEPT !.gl.accumulator = DSub(@, TIMESTEP_D)], e)
  ELSE w

\* loop without the isRunning check
loop_Unguarded(w, e, timestamp) ==
  requestAnimationFrame(render(RunSteps(
    [w EXCEPT !.gl.lastTime = timestamp,
              !.gl.accumulator = DAdd(@, DDiv(timestamp - w.gl.lastTime, 1000))],
    e)))

\* loop(timestamp): deltaTime = (timestamp - lastTime) / 1000 in doubles
loop(w, e, timestamp) ==
  IF ~w.gl.isRunning THEN w
  ELSE requestAnimationFrame(render(RunSteps(
         [w EXCEPT !.gl.lastTime = timestamp,
                   !.gl.accumulator = DAdd(@, DDiv(timestamp - w.gl.lastTime, 1000))],
         e)))

(***************************************************************************)
(* State                                                                   *)
(***************************************************************************)
VARIABLES
  gameState,   \* GameLoop.gameState
  lander,      \* GameLoop.lander
  terrain,     \* GameLoop.terrain, an index into Terrains
  debris,      \* DebrisManager.debris
  gl,          \* the GameLoop's own fields
  custom,      \* DIFFICULTY_SETTINGS.CUSTOM
  storage,     \* localStorage's entry for 'moon-lander-high-score'
  pending,     \* frame callbacks requested and not yet run
  input,       \* the KeyboardInput flags
  keys,        \* the keys held down
  now,         \* performance.now(), ms
  lastFrame,   \* the timestamp the browser gave the last frame callback, ms
  hit,         \* history: the collision result of the last PLAYING step
  trace,       \* history: the last frame callback or updateOnce and its calls
  belowStart,  \* history: a frame's timestamp was below the loop's lastTime
  pressMoves,  \* history: the menu moves made since a key last went down or up
  scoreScreen, \* history: when the score screen's first tick ran, and
               \* whether one of its ticks saw no key held
  ticks,       \* the number of frame callbacks and updateOnce calls run
  advances     \* the number of times the clock has moved

vars == <<gameState, lander, terrain, debris, gl, custom, storage, pending,
          input, keys, now, lastFrame, hit, trace, belowStart, pressMoves,
          scoreScreen, ticks, advances>>

MaxTicks == 4
MaxAdvances == 2
MaxKeysHeld == 1
MaxPending == 2

\* the values localStorage may hold for the key when the page loads
InitialStores ==
  { [present |-> FALSE, value |-> << >>],
    [present |-> TRUE, value |-> <<"7">>],
    [present |-> TRUE, value |-> <<"a", "b", "c">>] }

\* the time that passes between two handlers, ms
ClockSteps == {201, 5000}

\* the deltaTime values given to updateOnce, 1/3000 s (0.3 s and 0.5 s);
\* only a PLAYING step reads its deltaTime
DeltaTimes == IF gameState.status = "PLAYING" THEN {900, 1500} ELSE {900}

DebrisSeeds == {0, 1}

NoHit == [type |-> "none", segmentIndex |-> -1, isLeftFoot |-> FALSE,
          lander |-> NewLander]

World == [gameState |-> gameState, lander |-> lander, terrain |-> terrain,
          debris |-> debris, gl |-> gl, custom |-> custom, storage |-> storage,
          pending |-> pending, hit |-> NoHit, trace |-> << >>]

\* the world at the entry of the handler op called with arg
Handling(op, arg) == Log(World, op, arg)

\* the handler made a menu move: it changed the selected difficulty, the
\* selected custom setting or a custom value, and stayed in the menu
MenuMoved(w) ==
  /\ gameState.status \in {"SELECTING_DIFFICULTY", "SETTING_CUSTOM_DIFFICULTY"}
  /\ w.gameState.status = gameState.status
  /\ \/ w.gl.difficultySelectionIndex # gl.difficultySelectionIndex
     \/ w.gl.customSettingsIndex # gl.customSettingsIndex
     \/ w.custom # custom

GameOver == {"LANDED", "CRASHED"}

\* no tick of the score screen has run since the game was last reset
NoOver == [since |-> -1, idle |-> FALSE]

\* the handler ran an update on the score screen: one that found the game
\* over, or one that followed the landing or crash of an earlier update
OverTicked(w) ==
  \/ gameState.status \in GameOver
       /\ \E j \in 1..Len(w.trace) : w.trace[j].op = "update"
  \/ \E i \in 1..Len(w.trace) :
       /\ w.trace[i].op \in {"handleLanding", "handleCrash"}
       /\ \E j \in (i + 1)..Len(w.trace) : w.trace[j].op = "update"

\* the handler leaves the world w
Becomes(w) ==
  /\ gameState' = w.gameState
  /\ lander' = w.lander
  /\ terrain' = w.terrain
  /\ debris' = w.debris
  /\ gl' = w.gl
  /\ custom' = w.custom
  /\ storage' = w.storage
  /\ pending' = w.pending
  /\ hit' = w.hit
  /\ trace' = w.trace
  /\ pressMoves' = pressMoves + (IF MenuMoved(w) THEN 1 ELSE 0)
  /\ scoreScreen' =
       IF \E i \in 1..Len(w.trace) : w.trace[i].op = "resetGame"
       THEN NoOver
       ELSE IF OverTicked(w)
       THEN [since |-> IF scoreScreen.since < 0 THEN now ELSE scoreScreen.since,
             idle |-> scoreScreen.idle \/ ~hasAnyInput(input)]
       ELSE scoreScreen

Env(t, seed, readThrows, writeThrows) ==
  [now |-> now, input |-> input, terrain |-> t, seed |-> seed,
   readThrows |-> readThrows, writeThrows |-> writeThrows]

\* the draws one update can make: the debris velocities and the store's
\* acceptance of a write in a PLAYING step, the new terrain and the store's
\* read in a reset
Envs ==
  CASE gameState.status = "PLAYING" ->
         {Env(1, s, FALSE, wt) : s \in DebrisSeeds, wt \in BOOLEAN}
    [] gameState.status \in {"LANDED", "CRASHED"} ->
         {Env(t, 0, r, FALSE) : t \in 1..Len(Terrains), r \in BOOLEAN}
    [] OTHER -> {Env(1, 0, FALSE, FALSE)}

\* the GameLoop constructor, on a page whose store holds any of InitialStores
Init ==
  /\ now = 10
  /\ lastFrame = 0
  /\ belowStart = FALSE
  /\ pressMoves = 0
  /\ scoreScreen = NoOver
  /\ input = NoInput
  /\ keys = {}
  /\ ticks = 0
  /\ advances = 0
  /\ \E st \in InitialStores, t \in 1..Len(Terrains), r \in BOOLEAN :
       LET w0 == [gameState |-> NewGameState, lander |-> NewLander, terrain |-> t,
                  debris |-> << >>, gl |-> NewGameLoop,
                  custom |-> DIFFICULTY_SETTINGS.CUSTOM, storage |-> st,
                  pending |-> 0, hit |-> NoHit, trace |-> << >>]
           w1 == resetGame(w0, [now |-> 10, input |-> NoInput, terrain |-> t,
                                seed |-> 0, readThrows |-> r, writeThrows |-> FALSE])
       IN  /\ gameState = w1.gameState
           /\ lander = w1.lander
           /\ terrain = w1.terrain
           /\ debris = w1.debris
           /\ gl = w1.gl
           /\ custom = w1.custom
           /\ storage = w1.storage
           /\ pending = w1.pending
           /\ hit = w1.hit
           /\ trace = w1.trace

KeyDown(k) ==
  /\ k \notin keys
  /\ Cardinality(keys) < MaxKeysHeld
  /\ keys' = keys \cup {k}
  /\ input' = handleKey(input, k, TRUE)
  /\ pressMoves' = 0
  /\ UNCHANGED <<gameState, lander, terrain, debris, gl, custom, storage, pending,
                 now, lastFrame, hit, trace, belowStart, scoreScreen, ticks,
                 advances>>

KeyUp(k) ==
  /\ k \in keys
  /\ keys' = keys \ {k}
  /\ input' = handleKey(input, k, FALSE)
  /\ pressMoves' = 0
  /\ UNCHANGED <<gameState, lander, terrain, debris, gl, custom, storage, pending,
                 now, lastFrame, hit, trace, belowStart, scoreScreen, ticks,
                 advances>>

\* time passes
Advance(d) ==
  /\ advances < MaxAdvances
  /\ now' = now + d
  /\ advances' = advances + 1
  /\ UNCHANGED <<gameState, lander, terrain, debris, gl, custom, storage, pending,
                 input, keys, lastFrame, hit, trace, belowStart, pressMoves,
                 scoreScreen, ticks>>

\* a call of updateOnce(deltaTime)
UpdateOnce(deltaTime) ==
  /\ ticks < MaxTicks
  /\ \E e \in Envs :
       \E w \in {updateOnce(Handling("updateOnce", deltaTime), e, deltaTime)} :
         Becomes(w)
  /\ ticks' = ticks + 1
  /\ UNCHANGED <<input, keys, now, lastFrame, belowStart, advances>>

Next ==
  \/ \E k \in Keys : KeyDown(k)
  \/ \E k \in Keys : KeyUp(k)
  \/ \E d \in ClockSteps : Advance(d)
  \/ \E dt \in DeltaTimes : UpdateOnce(dt)

Spec == Init /\ [][Next]_vars

(***************************************************************************)
(* The running loop: start(), stop() and the frame callbacks the browser   *)
(* delivers, on a page with an empty store.                                *)
(***************************************************************************)
\* the time between two frames, ms
FrameGaps == {16, 650}

\* how far a frame's timestamp lies behind performance.now(), ms: the first
\* frame after start() may have begun before start() read the clock
FrameLags == IF gl.lastTime > lastFrame THEN {0, 5} ELSE {0}

\* the keys pressed while the loop runs: confirm, thrust and escape
LoopKeys == {"Enter", "ArrowUp", "Escape"}

\* the draws the steps of one frame callback can make
FrameEnvs == {Env(1, 0, FALSE, wt) : wt \in BOOLEAN}

\* a call of start()
Start ==
  /\ pending < MaxPending
  /\ LET w == start(World, Env(1, 0, FALSE, FALSE))
     IN  gl' = w.gl /\ pending' = w.pending
  /\ UNCHANGED <<gameState, lander, terrain, debris, custom, storage, input, keys,
                 now, lastFrame, hit, trace, belowStart, pressMoves,
                 scoreScreen, ticks, advances>>

\* a call of stop()
Stop ==
  /\ gl' = stop(World).gl
  /\ UNCHANGED <<gameState, lander, terrain, debris, custom, storage, pending,
                 input, keys, now, lastFrame, hit, trace, belowStart, pressMoves,
                 scoreScreen, ticks, advances>>

\* the browser runs one requested frame callback: loop(now - lag)
FrameCallback(lag) ==
  /\ pending > 0
  /\ ticks < MaxTicks
  /\ now - lag >= lastFrame
  /\ lastFrame' = now - lag
  /\ belowStart' = (belowStart \/ (gl.isRunning /\ now - lag < gl.lastTime))
  /\ \E e \in FrameEnvs :
       \E w \in {loop([Handling("loop", now - lag) EXCEPT !.pending = @ - 1],
                      e, now - lag)} :
         Becomes(w)
  /\ ticks' = ticks + 1
  /\ UNCHANGED <<input, keys, now, advances>>

InitLoop ==
  /\ Init
  /\ ~storage.present
  /\ terrain = 1
  /\ [op |-> "getItem", arg |-> 0] \notin {trace[i] : i \in 1..Len(trace)}

NextLoop ==
  \/ Start
  \/ Stop
  \/ \E lag \in FrameLags : FrameCallback(lag)
  \/ \E d \in FrameGaps : Advance(d)
  \/ \E k \in LoopKeys : KeyDown(k)
  \/ \E k \in LoopKeys : KeyUp(k)
  \/ \E dt \in DeltaTimes : UpdateOnce(dt)

SpecLoop == InitLoop /\ [][NextLoop]_vars

(***************************************************************************)
(* Properties                                                              *)
(***************************************************************************)
Called(tr, op) == \E i \in 1..Len(tr) : tr[i].op = op

StatusEdges ==
  { <<"SELECTING_DIFFICULTY", "SETTING_CUSTOM_DIFFICULTY">>,
    <<"SELECTING_DIFFICULTY", "PLAYING">>,
    <<"SETTING_CUSTOM_DIFFICULTY", "SELECTING_DIFFICULTY">>,
    <<"SETTING_CUSTOM_DIFFICULTY", "PLAYING">>,
    <<"PLAYING", "LANDED">>, <<"PLAYING", "CRASHED">>,
    <<"LANDED", "SELECTING_DIFFICULTY">>, <<"CRASHED", "SELECTING_DIFFICULTY">> }

OnPad(t, i) ==
  \E k \in 1..Len(Terrains[t].pads) :
     Terrains[t].pads[k].startIndex <= i /\ i < Terrains[t].pads[k].endIndex

\* C2: a PLAYING tick in which the collision detector reports a foot hit on
\* segment i ends LANDED iff i belongs to a pad and the craft, as it was at
\* the hit, is safe to land; every other foot hit ends CRASHED; none ends
\* PLAYING.
C2_FootHitResolution ==
  [][(gameState.status = "PLAYING" /\ hit'.type = "foot")
       => /\ gameState'.status \in {"LANDED", "CRASHED"}
          /\ gameState'.status = "LANDED"
               <=> (OnPad(terrain, hit'.segmentIndex) /\ isSafeToLand(hit'.lander))]_vars

\* a foot hit on a pad segment in a safe attitude has ended the round LANDED
C2_Witness ==
  /\ gameState.status = "LANDED"
  /\ hit.type = "foot"
  /\ OnPad(terrain, hit.segmentIndex)
  /\ isSafeToLand(hit.lander)

\* C3: when the tick that has just run crashed the craft, the status is
\* CRASHED and exactly 10 debris particles are active.
C3_CrashLeavesTenDebris ==
  Called(trace, "handleCrash")
    => /\ gameState.status = "CRASHED"
       /\ Len(DebrisManager_getAll(debris)) = 10

\* C4: a tick that moves the status from PLAYING to LANDED adds exactly
\* floor((100 + fuel / 10) * multiplier) to the score, for the fuel left at
\* the landing and the pad of the hit segment.
C4_LandingScore ==
  [][(gameState.status = "PLAYING" /\ gameState'.status = "LANDED")
       => \E k \in 1..Len(Terrains[terrain].pads) :
             LET pad == Terrains[terrain].pads[k]
             IN  /\ pad.startIndex <= hit'.segmentIndex
                 /\ hit'.segmentIndex < pad.endIndex
                 /\ gameState'.score - gameState.score
                      = ((10000 + gameState'.fuel) * pad.multiplier) \div 1000]_vars

\* a landing has scored
C4_Witness ==
  /\ gameState.status = "LANDED"
  /\ Called(trace, "handleLanding")
  /\ gameState.score > 0

\* C5: highScore never decreases from one step to the next.
C5_HighScoreMonotone ==
  [][~Greater(gameState.highScore, gameState'.highScore)]_vars


\* the call of localStorage.setItem made by the handler, if any: its
\* argument is accepted (arg = 1) or the call throws (arg = 0)
SetItemCalls(tr) == {i \in 1..Len(tr) : tr[i].op = "setItem"}

\* s is the base-10 string of the non-negative integer n
IsDecimalOf(s, n) ==
  /\ Len(s) > 0
  /\ \A i \in 1..Len(s) : IsDigit(s[i])
  /\ Len(s) > 1 => s[1] # "0"
  /\ ReadDigits(s, 1, 0) = n

\* C6: on every transition to LANDED or CRASHED the key is written (setItem
\* is called) iff the round's score is strictly greater than highScore; the
\* value written is the base-10 string of the score and highScore is the
\* score afterwards; otherwise highScore and the store are unchanged.
C6_HighScoreWrite ==
  [][(gameState.status = "PLAYING" /\ gameState'.status \in {"LANDED", "CRASHED"})
       => LET calls == SetItemCalls(trace')
          IN  /\ calls # {} <=> Greater(gameState'.score, gameState.highScore)
              /\ calls # {}
                   => /\ Cardinality(calls) = 1
                      /\ gameState'.highScore = gameState'.score
                      /\ \A i \in calls :
                           IF trace'[i].arg = 1
                           THEN /\ storage'.present
                                /\ IsDecimalOf(storage'.value, gameState'.score)
                           ELSE storage' = storage
              /\ calls = {}
                   => /\ gameState'.highScore = gameState.highScore
                      /\ storage' = storage]_vars

\* a landing whose score beats the stored high score of 7 has been written
C6_Witness ==
  /\ gameState.status = "LANDED"
  /\ \E i \in SetItemCalls(trace) : trace[i].arg = 1
  /\ storage.value = <<"3", "0">>
  /\ gameState.highScore = 30

\* s is a base-10 integer: an optional minus sign and digits
IsInteger(s) ==
  LET d == IF Len(s) > 0 /\ s[1] = "-" THEN Tail(s) ELSE s
  IN  Len(d) > 0 /\ \A i \in 1..Len(d) : IsDigit(d[i])

IntegerOf(s) == IF s[1] = "-" THEN -ReadDigits(s, 2, 0) ELSE ReadDigits(s, 1, 0)

\* C7: after initialize, highScore is the stored integer when the stored
\* string is a base-10 integer, and 0 when the key is absent, when the
\* string does not parse as an integer, or when the read throws.
C7_LoadDegradesToZero ==
  \A i \in 1..Len(trace) :
     (trace[i].op = "getItem" /\ gameState.status = "SELECTING_DIFFICULTY")
       => gameState.highScore =
            IF trace[i].arg = 1 /\ storage.present /\ IsInteger(storage.value)
            THEN IntegerOf(storage.value) ELSE 0

(***************************************************************************)
(* The loop                                                                *)
(***************************************************************************)
\* the step is a frame callback
FrameRan == ticks' = ticks + 1 /\ trace'[1].op = "loop"

\* the step is a call of updateOnce
UpdateOnceRan == ticks' = ticks + 1 /\ trace'[1].op = "updateOnce"

\* the positions of the calls of op in the trace tr
CallsOf(tr, op) == {i \in 1..Len(tr) : tr[i].op = op}

\* what a physics step calls
StepCalls == {"update", "Lander.update", "checkLanderTerrainCollision",
              "handleLanding", "handleCrash", "DebrisManager.update"}

\* C8: within one frame callback, every physics step in PLAYING status runs
\* Lander.update first, then the collision detection, then the landing or
\* crash resolution, then the debris update, and render runs only after the
\* last physics step of the callback.
C8_StepOrder ==
  (Len(trace) > 0 /\ trace[1].op = "loop") =>
    /\ \A i \in CallsOf(trace, "Lander.update") :
         /\ trace[i - 1].op = "update"
         /\ i < Len(trace)
         /\ trace[i + 1].op = "checkLanderTerrainCollision"
         /\ \E j \in (i + 2)..Len(trace) :
              /\ trace[j].op = "DebrisManager.update"
              /\ \A k \in (i + 2)..(j - 1) :
                   trace[k].op \in {"handleLanding", "handleCrash", "setItem"}
    /\ \A i \in CallsOf(trace, "render") :
         \A j \in 1..Len(trace) : trace[j].op \in StepCalls => j < i

\* a frame callback that ran several PLAYING steps, landed the craft in one
\* of them and rendered
C8_Witness ==
  /\ Len(trace) > 0
  /\ trace[1].op = "loop"
  /\ Cardinality(CallsOf(trace, "Lander.update")) >= 2
  /\ Called(trace, "handleLanding")
  /\ Called(trace, "render")

\* n * TIMESTEP, exactly, for 0 <= n < 1024
TimesTimestep(n) == Norm(n * TIMESTEP_D.l2, n * TIMESTEP_D.l1, n * TIMESTEP_D.l0)

\* accumulator + deltaTime at the entry of the frame callback this step runs,
\* exactly
Accumulated ==
  ExactAdd(gl.accumulator, DDiv(trace'[1].arg - gl.lastTime, 1000))

\* the frame callback of this step ran on a running loop, and no frame so
\* far had a timestamp below the loop's lastTime
TimelyFrame == FrameRan /\ gl.isRunning /\ ~belowStart'

AccumulatorInRange ==
  ~IsNeg(gl'.accumulator) /\ DLess(gl'.accumulator, TIMESTEP_D)

UpdatesGetTimestep ==
  \A i \in CallsOf(trace', "update") : trace'[i].arg = TIMESTEP

\* C9: for frame timestamps that never go below the time recorded by
\* start(), after every frame callback 0 <= accumulator < TIMESTEP, every
\* update issued by the loop receives exactly TIMESTEP, and the number of
\* updates issued is floor((accumulator before + dt) / TIMESTEP).
C9_AccumulatorAndCount ==
  [][TimelyFrame =>
       /\ AccumulatorInRange
       /\ UpdatesGetTimestep
       /\ LET n == Cardinality(CallsOf(trace', "update"))
          IN  /\ DGeq(Accumulated, TimesTimestep(n))
              /\ DLess(Accumulated, TimesTimestep(n + 1))]_vars

\* C9, amended: as C9, with the number of updates within one of
\* floor((accumulator before + dt) / TIMESTEP).
C9_CountWithinOne ==
  [][TimelyFrame =>
       /\ AccumulatorInRange
       /\ UpdatesGetTimestep
       /\ LET n == Cardinality(CallsOf(trace', "update"))
          IN  /\ DGeq(Accumulated, TimesTimestep(Max(n - 1, 0)))
              /\ DLess(Accumulated, TimesTimestep(n + 2))]_vars

\* a frame 650 ms after the last one has run its 38 updates on time
C9_Witness ==
  /\ Len(trace) > 0
  /\ trace[1].op = "loop"
  /\ gl.isRunning
  /\ ~belowStart
  /\ Cardinality(CallsOf(trace, "update")) = 38
  /\ DLess(gl.accumulator, TIMESTEP_D)

\* C10: after stop() and with no later start(), a frame callback that was
\* already scheduled returns without updating, rendering or scheduling
\* another frame; the game state stays as it was and changes only through
\* updateOnce.
C10_StoppedLoopIsInert ==
  [][/\ (FrameRan /\ ~gl.isRunning) =>
          /\ UNCHANGED <<gameState, lander, terrain, debris, gl, custom, storage>>
          /\ Len(trace') = 1
          /\ pending' = pending - 1
     /\ (/\ ~gl.isRunning
         /\ ~gl'.isRunning
         /\ <<gameState, lander, terrain, debris, gl, custom, storage>>' #
              <<gameState, lander, terrain, debris, gl, custom, storage>>) =>
          UpdateOnceRan]_vars

\* the callback scheduled by start() has run after stop() and returned at once
C10_Witness ==
  /\ ~gl.isRunning
  /\ pending = 0
  /\ Len(trace) = 1
  /\ trace[1].op = "loop"

(***************************************************************************)
(* A flight in progress: the game in PLAYING status with the craft         *)
(* anywhere over the terrain, driven by update ticks and the flight keys.  *)
(***************************************************************************)
\* where the craft is and how it moves (centi-px, milli-px/s): at the spawn
\* point, sinking just above the pad, sinking half over the pad's left end,
\* and leaving the world at either edge
FlightStarts ==
  { [p |-> Vec(10000, 10000), v |-> Vec(0, 0)],
    [p |-> Vec(10000, 10300), v |-> Vec(0, 5000)],
    [p |-> Vec(9000, 10300), v |-> Vec(0, 5000)],
    [p |-> Vec(19900, 5000), v |-> Vec(20000, 0)],
    [p |-> Vec(100, 5000), v |-> Vec(-20000, 0)] }

\* craft rotations from upright, centi-radians
FlightRotations == {0, 20}

\* the fuel left, tenths: none, less than one tick's use, all of it
FlightFuels(difficulty) == {0, 2, DIFFICULTY_SETTINGS[difficulty].initialFuel}

FlightKeys == {"ArrowLeft", "ArrowRight", "ArrowUp"}

InitFlight ==
  /\ now = 10
  /\ lastFrame = 0
  /\ belowStart = FALSE
  /\ pressMoves = 0
  /\ scoreScreen = NoOver
  /\ input = NoInput
  /\ keys = {}
  /\ ticks = 0
  /\ advances = 0
  /\ terrain = 1
  /\ debris = << >>
  /\ custom = DIFFICULTY_SETTINGS.CUSTOM
  /\ storage = [present |-> FALSE, value |-> << >>]
  /\ pending = 0
  /\ hit = NoHit
  /\ trace = << >>
  /\ \E i \in {1, 2} :
       /\ gl = [NewGameLoop EXCEPT !.difficultySelectionIndex = i,
                                   !.lastInputTime = 10]
       /\ \E f \in FlightFuels(difficulties[i + 1]) :
            gameState = [NewGameState EXCEPT !.status = "PLAYING",
                                             !.difficulty = difficulties[i + 1],
                                             !.fuel = f]
  /\ \E c \in FlightStarts, r \in FlightRotations :
       lander = [position |-> c.p, previousPosition |-> c.p, velocity |-> c.v,
                 rotation |-> r, previousRotation |-> r]

NextFlight ==
  \/ \E k \in FlightKeys : KeyDown(k)
  \/ \E k \in FlightKeys : KeyUp(k)
  \/ UpdateOnce(TIMESTEP)

SpecFlight == InitFlight /\ [][NextFlight]_vars

\* C11: after every Lander.update call, on the fuel-empty path and on the
\* normal path, previousPosition is the position and previousRotation the
\* rotation the craft had immediately before the call; a boundary wrap made
\* in one tick is the sweep start of the next.
C11_SweepStart ==
  [][(UpdateOnceRan /\ Called(trace', "Lander.update")) =>
       /\ hit'.lander.previousPosition = lander.position
       /\ hit'.lander.previousRotation = lander.rotation
       /\ lander'.previousPosition = lander.position
       /\ lander'.previousRotation = lander.rotation]_vars

\* out of fuel, the craft left the world at its right edge in one tick and
\* was swept from the wrapped position in the next
C11_Witness ==
  /\ Called(trace, "Lander.update")
  /\ gameState.fuel = 0
  /\ lander.velocity.x > 0
  /\ lander.previousPosition.x < 1000
  /\ lander.position.x > lander.previousPosition.x

\* the initialFuel of the current difficulty setting
InitialFuel == SettingsOf(World, gameState.difficulty).initialFuel

LanderDeltaTime(tr) == tr[CHOOSE i \in CallsOf(tr, "Lander.update") : TRUE].arg

\* C13: if fuel is 0 when Lander.update starts, then whatever the input
\* flags are, rotation is unchanged, fuel stays 0, velocity.x is unchanged
\* and velocity.y changes by exactly the gravity term for dt.
C13_EmptyTankFallsFreely ==
  [][(UpdateOnceRan /\ Called(trace', "Lander.update") /\ gameState.fuel = 0) =>
       /\ hit'.lander.rotation = lander.rotation
       /\ gameState'.fuel = 0
       /\ hit'.lander.velocity.x = lander.velocity.x
       /\ hit'.lander.velocity.y - lander.velocity.y =
            applyGravity(Vec(0, 0), SettingsOf(World, gameState.difficulty).gravity,
                         LanderDeltaTime(trace')).y]_vars

\* a tick with an empty tank and the left key held has left the rotation
\* as it was
C13_Witness ==
  /\ Called(trace, "Lander.update")
  /\ gameState.fuel = 0
  /\ input.isRotatingLeft
  /\ hit.lander.rotation = hit.lander.previousRotation
  /\ hit.lander.velocity.y > 0

\* C14: in SELECTING_DIFFICULTY and SETTING_CUSTOM_DIFFICULTY one uninterrupted
\* key press (the key stays held over any number of ticks, with no release in
\* between) causes at most one menu move.
C14_OneMovePerPress == keys # {} => pressMoves <= 1

(***************************************************************************)
(* The score screen: a game on NORMAL, confirmed on the menu at 211 ms,    *)
(* that its first PLAYING tick has ended, landed or crashed, followed by   *)
(* key presses, the passing of time and update ticks.                      *)
(***************************************************************************)
InitOver ==
  /\ now = 211
  /\ lastFrame = 0
  /\ belowStart = FALSE
  /\ pressMoves = 0
  /\ scoreScreen = NoOver
  /\ input = NoInput
  /\ keys = {}
  /\ ticks = 0
  /\ advances = 0
  /\ \E dt \in {900, 1500}, seed \in DebrisSeeds :
       LET e == [now |-> 211, input |-> NoInput, terrain |-> 1,
                 seed |-> seed, readThrows |-> FALSE, writeThrows |-> FALSE]
           w0 == [gameState |-> NewGameState, lander |-> NewLander, terrain |-> 1,
                  debris |-> << >>, gl |-> NewGameLoop,
                  custom |-> DIFFICULTY_SETTINGS.CUSTOM,
                  storage |-> [present |-> FALSE, value |-> << >>],
                  pending |-> 0, hit |-> NoHit, trace |-> << >>]
           w1 == resetGame(w0, e)
           w2 == [w1 EXCEPT !.gameState.status = "PLAYING",
                            !.gameState.fuel = StartingFuel(DIFFICULTY_SETTINGS.NORMAL),
                            !.gl.waitForKeyRelease = FALSE,
                            !.trace = << >>]
           w3 == updateOnce(Log(w2, "updateOnce", dt), e, dt)
       IN  /\ w3.gameState.status \in GameOver
           /\ gameState = w3.gameState
           /\ lander = w3.lander
           /\ terrain = w3.terrain
           /\ debris = w3.debris
           /\ gl = w3.gl
           /\ custom = w3.custom
           /\ storage = w3.storage
           /\ pending = w3.pending
           /\ hit = w3.hit
           /\ trace = w3.trace

SpecOver == InitOver /\ [][Next]_vars

\* the time since the first tick of the score screen, ms, as the tick that
\* runs now sees it
Elapsed == IF scoreScreen.since < 0 THEN 0 ELSE now - scoreScreen.since

\* C15: a tick that finds the game LANDED or CRASHED resets it only if the
\* restart input is held, at least WAIT_TIME has passed since the first
\* game-over tick and a tick since then saw no key held, or if less than
\* WAIT_TIME has passed and the escape input is held.
C15_RestartAfterWait ==
  [][(gameState.status \in GameOver /\ Called(trace', "resetGame"))
       => \/ /\ Elapsed >= WAIT_TIME
             /\ input.isRestarting
             /\ scoreScreen.idle
          \/ /\ Elapsed < WAIT_TIME
             /\ input.isEscaping]_vars

\* the restart input has reset a finished game after the wait
C15_Witness ==
  /\ gameState.status = "SELECTING_DIFFICULTY"
  /\ Called(trace, "resetGame")
  /\ input.isRestarting
  /\ now >= WAIT_TIME
  /\ ticks > 0

\* the segments of terrain t the sweep from prev to foot intersects
SegmentsHit(prev, foot, t) == {i \in Segments(t) : SweepHit(prev, foot, t, i)}

\* the result the detector owes for a craft whose left foot sweep intersects
\* the segments left, whose right foot sweep intersects the segments right
\* and whose body-centre sweep intersects the segments body
Expected(left, right, body) ==
  IF left \cup right # {}
  THEN [type |-> "foot", segmentIndex |-> FirstOf(left \cup right),
        isLeftFoot |-> FirstOf(left \cup right) \in left]
  ELSE IF body # {}
  THEN [type |-> "body", segmentIndex |-> -1, isLeftFoot |-> FALSE]
  ELSE [type |-> "none", segmentIndex |-> -1, isLeftFoot |-> FALSE]

\* what checkLanderTerrainCollision returned for the craft of the last
\* PLAYING tick
Returned == [type |-> hit.type, segmentIndex |-> hit.segmentIndex,
             isLeftFoot |-> hit.isLeftFoot]

\* the foot positions of the craft of the last PLAYING tick
HitFeet == calculateFootPositions(hit.lander)

OnPadSegment(p, t, k) ==
  LET pad == Terrains[t].pads[k]
  IN  /\ p.y = Point(t, pad.startIndex).y
      /\ Point(t, pad.startIndex).x <= p.x
      /\ p.x <= Point(t, pad.endIndex).x

\* C17: whenever the status is LANDED the craft is at rest on the pad it
\* landed on: its velocity is (0, 0), it is upright, and both feet lie on the
\* pad segment, at the pad's y and within the pad's x-interval.
C17_LandedAtRestOnPad ==
  gameState.status = "LANDED" =>
    /\ lander.velocity = Vec(0, 0)
    /\ lander.rotation = 0
    /\ \E k \in 1..Len(Terrains[terrain].pads) :
         /\ OnPadSegment(calculateFootPositions(lander).leftFoot, terrain, k)
         /\ OnPadSegment(calculateFootPositions(lander).rightFoot, terrain, k)

(***************************************************************************)
(* Direct calls of GameStateManager.isSafeToLand and of                    *)
(* CollisionDetector.checkBoundaries on a craft of any velocity, any       *)
(* rotation near the tolerance and any x near and beyond the world's       *)
(* edges.  hit.lander is the craft as it was passed to the last call,      *)
(* trace the last call: its name and its result (isSafeToLand: 1 for true, *)
(* 0 for false) or its width argument (checkBoundaries).                   *)
(***************************************************************************)
InitCalls ==
  /\ now = 10
  /\ lastFrame = 0
  /\ belowStart = FALSE
  /\ pressMoves = 0
  /\ scoreScreen = NoOver
  /\ input = NoInput
  /\ keys = {}
  /\ ticks = 0
  /\ advances = 0
  /\ terrain = 1
  /\ debris = << >>
  /\ custom = DIFFICULTY_SETTINGS.CUSTOM
  /\ storage = [present |-> FALSE, value |-> << >>]
  /\ pending = 0
  /\ hit = NoHit
  /\ trace = << >>
  /\ gl = NewGameLoop
  /\ gameState = [NewGameState EXCEPT !.status = "PLAYING"]
  /\ \E v \in {Vec(500, 500), Vec(5000, 5000), Vec(4800, 6400), Vec(8000, 0),
               Vec(7999, 0), Vec(0, -7999), Vec(5656, 5656), Vec(5657, 5657),
               Vec(80000, 0)},
        r \in {-30, -29, 0, 29, 30},
        x \in {-20001, -1, 0, 1, 20000, 20001, 40001} :
       lander = [position |-> Vec(x, 10000), previousPosition |-> Vec(x, 10000),
                 velocity |-> v, rotation |-> r, previousRotation |-> r]

\* a call of isSafeToLand(lander)
CallIsSafeToLand ==
  /\ ticks < MaxTicks
  /\ trace' = << [op |-> "isSafeToLand",
                  arg |-> IF isSafeToLand(lander) THEN 1 ELSE 0] >>
  /\ hit' = [NoHit EXCEPT !.lander = lander]
  /\ ticks' = ticks + 1
  /\ UNCHANGED <<gameState, lander, terrain, debris, gl, custom, storage, pending,
                 input, keys, now, lastFrame, belowStart, pressMoves, scoreScreen,
                 advances>>

\* a call of checkBoundaries(lander, width, viewport.height)
CallCheckBoundaries(width) ==
  /\ ticks < MaxTicks
  /\ lander' = checkBoundaries(lander, width, viewport.height * 100)
  /\ trace' = << [op |-> "checkBoundaries", arg |-> width] >>
  /\ hit' = [NoHit EXCEPT !.lander = lander]
  /\ ticks' = ticks + 1
  /\ UNCHANGED <<gameState, terrain, debris, gl, custom, storage, pending,
                 input, keys, now, lastFrame, belowStart, pressMoves, scoreScreen,
                 advances>>

NextCalls ==
  \/ CallIsSafeToLand
  \/ \E width \in {viewport.width * 100, viewport.width * 50} :
       CallCheckBoundaries(width)

SpecCalls == InitCalls /\ [][NextCalls]_vars

\* the last call was a call of op
LastCall(op) == trace # << >> /\ trace[1].op = op

\* the magnitude of velocity v is strictly below limit
MagnitudeBelow(v, limit) ==
  /\ Abs(v.x) < limit
  /\ Abs(v.y) < limit
  /\ v.x * v.x + v.y * v.y < limit * limit

\* C18: isSafeToLand(craft) is true exactly when the velocity magnitude is
\* strictly less than the velocity threshold and the rotation is strictly
\* less than the rotation tolerance away from upright, so that a craft at
\* either limit is not safe; in particular it is true for velocity
\* (0.5, 0.5) at rotation -PI/2 and false for velocity (5, 5).
C18_SafeToLand ==
  LastCall("isSafeToLand") =>
    /\ trace[1].arg = 1 <=> /\ MagnitudeBelow(hit.lander.velocity, maxSafeVelocity)
                            /\ Abs(hit.lander.rotation) < maxSafeRotation
    /\ (hit.lander.velocity = Vec(500, 500) /\ hit.lander.rotation = 0)
         => trace[1].arg = 1
    /\ hit.lander.velocity = Vec(5000, 5000) => trace[1].arg = 0

\* C19: after checkBoundaries(craft, width, height) the craft's x lies in
\* [0, width] and differs from its x before the call by an integer multiple
\* of width (width + 1 becomes 1).
C19_WrapIntoWorld ==
  LastCall("checkBoundaries") =>
    /\ 0 <= lander.position.x
    /\ lander.position.x <= trace[1].arg
    /\ (lander.position.x - hit.lander.position.x) % trace[1].arg = 0

(***************************************************************************)
(* Debris settling: one particle spawned above the flat pad under the      *)
(* spawn column (segment 9 of terrain 1, y = 124 px), with any of the      *)
(* velocities a burst can draw, and the debris update of every tick.  The  *)
(* loop reschedules itself after every frame, so the update keeps running. *)
(***************************************************************************)
InitDebris ==
  /\ now = 10
  /\ lastFrame = 0
  /\ belowStart = FALSE
  /\ pressMoves = 0
  /\ scoreScreen = NoOver
  /\ input = NoInput
  /\ keys = {}
  /\ ticks = 0
  /\ advances = 0
  /\ terrain = 1
  /\ custom = DIFFICULTY_SETTINGS.CUSTOM
  /\ storage = [present |-> FALSE, value |-> << >>]
  /\ pending = 0
  /\ hit = NoHit
  /\ trace = << >>
  /\ gl = NewGameLoop
  /\ gameState = [NewGameState EXCEPT !.status = "CRASHED"]
  /\ lander = NewLander
  /\ \E x \in {9000, 10000, 18000}, y \in {10000, 12000},
        i \in 1..Len(DebrisVelocities) :
       debris = DebrisManager_spawn(DebrisManager_clear, Vec(x, y),
                                    DebrisVelocities[i])

\* debrisManager.update(terrain), as the last call of every update
DebrisTick ==
  /\ debris' = DebrisManager_update(World).debris
  /\ UNCHANGED <<gameState, lander, terrain, gl, custom, storage, pending, input,
                 keys, now, lastFrame, hit, trace, belowStart, pressMoves,
                 scoreScreen, ticks, advances>>

NextDebris == DebrisTick

SpecDebris == InitDebris /\ [][NextDebris]_vars /\ WF_vars(DebrisTick)

\* the ground height beneath the point p of terrain t: the interpolated y of
\* the first segment whose x range holds p.x; -1 if there is none
GroundBelow(p, t) ==
  LET under == {j \in Segments(t) : Point(t, j).x <= p.x /\ p.x <= Point(t, j + 1).x
                                    /\ Point(t, j).x # Point(t, j + 1).x}
      j == FirstOf(under)
  IN  IF under = {} THEN -1
      ELSE Point(t, j).y + ((p.x - Point(t, j).x) * (Point(t, j + 1).y - Point(t, j).y))
                             \div (Point(t, j + 1).x - Point(t, j).x)

\* the particle d rests on the ground beneath it
Resting(d) ==
  /\ d.position.y = GroundBelow(d.position, terrain)
  /\ d.velocity = Vec(0, 0)

\* the particle d has left the world
OutOfWorld(d) ==
  \/ d.position.x < 0
  \/ d.position.x > viewport.width * 100
  \/ d.position.y > viewport.height * 100

AllInactive == \A i \in 1..Len(debris) : ~debris[i].active

\* C20: every debris particle spawned above flat terrain becomes inactive
\* after finitely many update ticks, and at that moment its y equals the
\* ground height beneath it and its velocity is (0, 0).
C20_DebrisSettles ==
  /\ <>AllInactive
  /\ [](\A i \in 1..Len(debris) : ~debris[i].active => Resting(debris[i]))

\* C20, amended: every debris particle spawned above flat terrain becomes
\* inactive after finitely many update ticks; at that moment it has left the
\* world, or its y equals the ground height beneath it and its velocity is
\* (0, 0).
C20_DebrisStops ==
  /\ <>AllInactive
  /\ [](\A i \in 1..Len(debris) :
          ~debris[i].active => OutOfWorld(debris[i]) \/ Resting(debris[i]))

\* a particle has come to rest on the pad it was spawned above
C20_Witness ==
  /\ debris # << >>
  /\ AllInactive
  /\ Resting(debris[1])
  /\ ~OutOfWorld(debris[1])
  /\ debris[1].position.y = Point(terrain, 9).y

\* C21: once a debris particle's active flag is false it never becomes true
\* again, its position and velocity never change again, and getAll() never
\* returns it; a reset drops the particles altogether.
C21_InactiveIsTerminal ==
  /\ [](\A k \in 1..Len(DebrisManager_getAll(debris)) :
          DebrisManager_getAll(debris)[k].active)
  /\ [][\A i \in 1..Len(debris) :
          (~debris[i].active /\ ~Called(trace', "resetGame"))
            => /\ i <= Len(debris')
               /\ debris'[i] = debris[i]]_vars

\* a tick of the score screen has run its debris update over the stopped
\* particles of an earlier crash
C21_Witness ==
  /\ gameState.status = "CRASHED"
  /\ Called(trace, "DebrisManager.update")
  /\ ~Called(trace, "handleCrash")
  /\ \E i \in 1..Len(debris) : ~debris[i].active
  /\ Len(DebrisManager_getAll(debris)) < Len(debris)

(***************************************************************************)
(* Terrain.generate(width, height) on drawn values of Math.random().       *)
(* Lengths are in deci-pixels.  A stream of draws is a sequence of digits  *)
(* read cyclically; the digit d stands for Math.random() = d / 10.  The    *)
(* pad placement and the subdivision read their own streams.               *)
(***************************************************************************)
TERRAIN_CONSTANTS == [EXCLUSION_ZONE |-> 2000, MIN_PAD_WIDTH |-> 400,
                      MAX_PAD_WIDTH_RANGE |-> 600, MIN_PAD_DISTANCE |-> 1000]
MAX_RETRIES == 100
MIN_SEGMENT_LENGTH == 300

\* the k-th value (from 0) that Math.random() returns, in tenths
Draw(s, k) == s[(k % Len(s)) + 1]

\* possibleRanges of generate
possibleRanges(width) ==
  << [min |-> 500, max |-> width \div 2 - TERRAIN_CONSTANTS.EXCLUSION_ZONE],
     [min |-> width \div 2 + TERRAIN_CONSTANTS.EXCLUSION_ZONE,
      max |-> width - 500] >>

\* a test that turns every candidate down
overlap_Always(padLocations, padX, padWidth) ==
  Len(padLocations) >= 0

\* padLocations.some(p => |p.x - padX| < (p.width + padWidth) / 2 + buffer)
overlap(padLocations, padX, padWidth) ==
  \E i \in 1..Len(padLocations) :
     2 * Abs(padLocations[i].x - padX)
       < padLocations[i].width + padWidth
           + 2 * TERRAIN_CONSTANTS.MIN_PAD_DISTANCE

\* one pass of the body of the placement loop; st.k counts the draws read
PlaceOne(width, height, s, st) ==
  LET range == possibleRanges(width)[(Draw(s, st.k) * 2) \div 10 + 1]
      padWidth == TERRAIN_CONSTANTS.MIN_PAD_WIDTH
                    + (Draw(s, st.k + 1) * TERRAIN_CONSTANTS.MAX_PAD_WIDTH_RANGE)
                        \div 10
      padX == range.min
                + RDiv(Draw(s, st.k + 2) * (range.max - range.min - padWidth),
                       10)
      padY == (height * 3) \div 10 + (Draw(s, st.k + 3) * (height \div 2)) \div 10
  IN  IF ~overlap(st.padLocations, padX, padWidth)
      THEN [st EXCEPT !.padLocations =
                         Append(@, [x |-> padX, width |-> padWidth, y |-> padY]),
                      !.k = @ + 4,
                      !.iterations = @ + 1]
      ELSE [st EXCEPT !.retries = @ + 1,
                      !.k = @ + 3,
                      !.iterations = @ + 1]

\* a pass of the loop without the retry budget in its condition
PlacePass_Unbudgeted(numPads, width, height, s, st) ==
  IF Len(st.padLocations) < numPads
  THEN PlaceOne(width, height, s, st)
  ELSE st

\* a pass of while (padLocations.length < numPads && retries < MAX_RETRIES)
\* { ... }: the body if the condition holds, and the end of the loop (no
\* change) if it does not
PlacePass(numPads, width, height, s, st) ==
  IF Len(st.padLocations) < numPads /\ st.retries < MAX_RETRIES
  THEN PlaceOne(width, height, s, st)
  ELSE st

\* the passes of the loop that the model follows at most
MaxPasses == 256

RECURSIVE PlacePads(_, _, _, _, _, _)
\* n passes of the loop from st on, by halves
PlacePads(numPads, width, height, s, st, n) ==
  IF n = 1 THEN PlacePass(numPads, width, height, s, st)
  ELSE CHOOSE r \in
         {PlacePads(numPads, width, height, s, half, n - n \div 2) :
            half \in {PlacePads(numPads, width, height, s, st, n \div 2)}}
         : TRUE

\* padLocations.sort((a, b) => a.x - b.x); accepted pads have distinct x
SortByX(padLocations) ==
  LET all == {padLocations[i] : i \in 1..Len(padLocations)}
  IN  [i \in 1..Len(padLocations) |->
         CHOOSE p \in all : Cardinality({q \in all : q.x < p.x}) = i - 1]

\* the point that recursiveSplit inserts between pp1 and pp2:
\* pp1 + t * (dx, dy) + disp * (-dy, dx) / length with t = 0.3 + 0.4 * rt and
\* disp = (rd - 0.5) * 2 * 0.3 * length, y clamped to [0.1, 0.9] * height
SplitPoint(pp1, pp2, height, rt, rd) ==
  LET dx == pp2.x - pp1.x
      dy == pp2.y - pp1.y
  IN  Vec(pp1.x + RDiv(dx * (30 + 4 * rt) - dy * (6 * rd - 30), 100),
          Max(height \div 10,
              Min((height * 9) \div 10,
                  pp1.y + RDiv(dy * (30 + 4 * rt) + dx * (6 * rd - 30), 100))))

\* length < MIN_SEGMENT_LENGTH
TooShort(pp1, pp2) ==
  (pp2.x - pp1.x) * (pp2.x - pp1.x) + (pp2.y - pp1.y) * (pp2.y - pp1.y)
    < MIN_SEGMENT_LENGTH * MIN_SEGMENT_LENGTH

\* result.splice(index1 + 1, 0, newPoint) with the two draws read
Spliced(st, index1, newPoint) ==
  [st EXCEPT !.result = SubSeq(@, 1, index1 + 1) \o << newPoint >>
                          \o SubSeq(@, index1 + 2, Len(@)),
             !.k = @ + 2,
             !.splits = @ + 1]

RECURSIVE recursiveSplit(_, _, _, _, _)
\* recursiveSplit(index1, index2) of subdivide; the indices of the second
\* recursive call are those of the code, taken after the first call returned
recursiveSplit(st, index1, index2, height, s) ==
  IF TooShort(st.result[index1 + 1], st.result[index2 + 1]) THEN st
  ELSE CHOOSE r \in
         {recursiveSplit(left, index1 + 1, index2 + 1, height, s) :
            left \in {recursiveSplit(n, index1, index1 + 1, height, s) :
                        n \in {Spliced(st, index1,
                                       SplitPoint(st.result[index1 + 1],
                                                  st.result[index2 + 1],
                                                  height, Draw(s, st.k),
                                                  Draw(s, st.k + 1)))}}}
         : TRUE

\* subdivide(p1, p2, height), reading the stream s from its k-th draw on
subdivide(p1, p2, height, s, k) ==
  recursiveSplit([result |-> << p1, p2 >>, k |-> k, splits |-> 0], 0, 1,
                 height, s)

\* keyPoints of generate: the start, each sorted pad's two ends, the end
KeyPoints(width, height, sorted, startY, endY) ==
  LET Ends(i) ==
        << [pos |-> Vec(sorted[i].x, sorted[i].y),
            isPadStart |-> TRUE, isPadEnd |-> FALSE],
           [pos |-> Vec(sorted[i].x + sorted[i].width, sorted[i].y),
            isPadStart |-> FALSE, isPadEnd |-> TRUE] >>
  IN  << [pos |-> Vec(0, startY), isPadStart |-> FALSE, isPadEnd |-> FALSE] >>
        \o [j \in 1..(2 * Len(sorted)) |-> Ends((j + 1) \div 2)[2 - (j % 2)]]
        \o << [pos |-> Vec(width, endY), isPadStart |-> FALSE,
               isPadEnd |-> FALSE] >>

\* one pass of the loop over the pairs of key points: a pad, or a stretch
\* of ground from subdivide without its first point
FillOne(kp1, kp2, height, s, st) ==
  IF kp1.isPadStart /\ kp2.isPadEnd
  THEN [st EXCEPT !.points = Append(@, kp2.pos),
                  !.pads = Append(@, [startIndex |-> Len(st.points) - 1,
                                      endIndex |-> Len(st.points),
                                      multiplier |-> 10])]
  ELSE CHOOSE r \in {[st EXCEPT !.points = @ \o Tail(seg.result),
                                !.k = seg.k,
                                !.splits = @ + seg.splits] :
                       seg \in {subdivide(kp1.pos, kp2.pos, height, s, st.k)}}
         : TRUE

RECURSIVE FillFrom(_, _, _, _, _)
\* for (let i = 0; i < keyPoints.length - 1; i++) { ... }, from the pair i on
FillFrom(keyPoints, i, height, s, st) ==
  IF i >= Len(keyPoints) THEN st
  ELSE CHOOSE r \in {FillFrom(keyPoints, i + 1, height, s, n) :
                       n \in {FillOne(keyPoints[i], keyPoints[i + 1], height,
                                      s, st)}} : TRUE

\* the multiplier of one pad in tenths: Math.round(A * (B + 1) * (C + 1) * D
\* * 10) with A = 20 / padWidth, B and C the wall heights over 20 px, D = 4
\* under a ceiling; each scan stops at the first point more than 100 px away
MultiplierOf(points, pad) ==
  LET pStart == points[pad.startIndex + 1]
      pEnd == points[pad.endIndex + 1]
      left == {i \in 1..(pad.startIndex + 1) :
                 \A j \in i..(pad.startIndex + 1) :
                    pStart.x - points[j].x <= 1000}
      right == {i \in (pad.endIndex + 1)..Len(points) :
                  \A j \in (pad.endIndex + 1)..i :
                     points[j].x - pEnd.x <= 1000}
      Wall(scanned) ==
        LET hs == {pStart.y - points[i].y : i \in scanned} \cup {0}
        IN  CHOOSE h \in hs : \A g \in hs : g <= h
      hasCeiling ==
        \/ \E i \in left : points[i].y < pStart.y /\ points[i].x > pStart.x
        \/ \E i \in right : points[i].y < pStart.y /\ points[i].x < pEnd.x
  IN  RDiv(((Wall(left) + 200) * (Wall(right) + 200))
             * (IF hasCeiling THEN 4 ELSE 1),
           20 * (pEnd.x - pStart.x))

\* calculateMultipliers()
calculateMultipliers(points, pads) ==
  [i \in 1..Len(pads) |->
     [pads[i] EXCEPT !.multiplier = MultiplierOf(points, pads[i])]]

\* the terrain from the placed pads: key points, ground, multipliers
Build(width, height, padDraws, splitDraws, numPads, placed) ==
  LET keyPoints ==
        KeyPoints(width, height, SortByX(placed.padLocations),
                  (height * 4) \div 10
                    + (Draw(padDraws, placed.k) * (height \div 5)) \div 10,
                  (height * 4) \div 10
                    + (Draw(padDraws, placed.k + 1) * (height \div 5)) \div 10)
  IN  CHOOSE r \in
        {[points |-> filled.points,
          pads |-> calculateMultipliers(filled.points, filled.pads),
          padLocations |-> placed.padLocations,
          numPads |-> numPads,
          iterations |-> placed.iterations,
          retries |-> placed.retries,
          splits |-> filled.splits] :
           filled \in {FillFrom(keyPoints, 1, height, splitDraws,
                                [points |-> << keyPoints[1].pos >>,
                                 pads |-> << >>, k |-> 0, splits |-> 0])}}
        : TRUE

\* generate(width, height): the points and pads of the terrain, with the
\* accepted pad locations and the counts of loop passes, retries and splits
generate(width, height, padDraws, splitDraws) ==
  LET numPads == 3 + (Draw(padDraws, 0) * 2) \div 10
  IN  CHOOSE r \in
        {Build(width, height, padDraws, splitDraws, numPads, placed) :
           placed \in {PlacePads(numPads, width, height, padDraws,
                                 [padLocations |-> << >>, retries |-> 0,
                                  k |-> 1, iterations |-> 0], MaxPasses)}}
        : TRUE

\* the streams of draws and the window sizes that the model generates from
PadDraws ==
  {<< a, b, c, d >> : a \in {0, 5, 9}, b \in {0, 5, 9}, c \in {0, 5, 9},
                      d \in {0, 5, 9}}
SplitDraws ==
  {<< 5, 5 >>, << 5, 0 >>, << 5, 9 >>, << 0, 9, 9, 0 >>, << 5, 9, 5, 0 >>,
   << 3, 2, 7, 8 >>}
Windows == {[width |-> 10000, height |-> 6000],
            [width |-> 12800, height |-> 7200],
            [width |-> 4000, height |-> 3000]}

InitTerrain ==
  /\ now = 10
  /\ lastFrame = 0
  /\ belowStart = FALSE
  /\ pressMoves = 0
  /\ scoreScreen = NoOver
  /\ input = NoInput
  /\ keys = {}
  /\ ticks = 0
  /\ advances = 0
  /\ terrain = 1
  /\ debris = << >>
  /\ custom = DIFFICULTY_SETTINGS.CUSTOM
  /\ storage = [present |-> FALSE, value |-> << >>]
  /\ pending = 0
  /\ hit = NoHit
  /\ gl = NewGameLoop
  /\ gameState = NewGameState
  /\ lander = NewLander
  /\ \E win \in Windows, padDraws \in PadDraws, splitDraws \in SplitDraws :
       trace = << [op |-> "Math.random",
                   arg |-> [width |-> win.width, height |-> win.height,
                            padDraws |-> padDraws,
                            splitDraws |-> splitDraws]] >>

\* a call of generate(width, height) on the drawn values
CallGenerate ==
  /\ Len(trace) = 1
  /\ trace' = Append(trace,
                     [op |-> "generate",
                      arg |-> generate(trace[1].arg.width, trace[1].arg.height,
                                       trace[1].arg.padDraws,
                                       trace[1].arg.splitDraws)])
  /\ UNCHANGED <<gameState, lander, terrain, debris, gl, custom, storage,
                 pending, input, keys, now, lastFrame, hit, belowStart,
                 pressMoves, scoreScreen, ticks, advances>>

NextTerrain == CallGenerate

SpecTerrain == InitTerrain /\ [][NextTerrain]_vars

\* the terrain that the call returned
Generated == trace[2].arg
IsGenerated == Len(trace) = 2 /\ trace[2].op = "generate"

\* the segments i and j of the polyline (from 1), i + 1 < j, have a point
\* in common
Crosses(points, i, j) ==
  checkLineIntersection(points[i], points[i + 1], points[j], points[j + 1])

\* the segment i + 1 runs back over the segment i
FoldsBack(points, i) ==
  LET a == points[i]
      b == points[i + 1]
      c == points[i + 2]
  IN  /\ (a.x - b.x) * (c.y - b.y) = (a.y - b.y) * (c.x - b.x)
      /\ (a.x - b.x) * (c.x - b.x) + (a.y - b.y) * (c.y - b.y) > 0

SelfIntersects(points) ==
  \/ \E i \in 1..(Len(points) - 1), j \in 1..(Len(points) - 1) :
        i + 1 < j /\ Crosses(points, i, j)
  \/ \E i \in 1..(Len(points) - 2) : FoldsBack(points, i)

\* C22: for every terrain produced by generate(width, height), no two
\* non-adjacent segments of the points polyline intersect, and adjacent
\* segments meet only at their shared endpoint
C22_NoSelfIntersection ==
  IsGenerated => ~SelfIntersects(Generated.points)

\* C23: terrain generation terminates for every sequence of random draws:
\* the pad-placement loop runs at most numPads + MAX_RETRIES passes, each
\* pass either accepting a pad or using up one retry, and ends by its own
\* condition; the filling of the ground ends after one split per inserted
\* point; and when the retry budget runs out the generation goes on with the
\* pads accepted so far, up to the right edge of the window
C23_GenerationTerminates ==
  IsGenerated =>
    /\ Generated.iterations <= Generated.numPads + MAX_RETRIES
    /\ Generated.iterations = Len(Generated.padLocations) + Generated.retries
    /\ \/ Len(Generated.padLocations) = Generated.numPads
       \/ Generated.retries = MAX_RETRIES
    /\ Len(Generated.points)
         = 2 + 2 * Len(Generated.padLocations) + Generated.splits
    /\ Len(Generated.pads) = Len(Generated.padLocations)
    /\ Generated.points[Len(Generated.points)].x = trace[1].arg.width

\* the retry budget ran out before all pads were placed
C23_Witness ==
  /\ IsGenerated
  /\ Generated.retries = MAX_RETRIES
  /\ Len(Generated.padLocations) < Generated.numPads
  /\ Generated.iterations > MAX_RETRIES
  /\ Generated.splits > 0

\* the i-th pad of the terrain is the i-th accepted location from the left
PadAt(g, i) ==
  LET loc == SortByX(g.padLocations)[i]
      pad == g.pads[i]
  IN  /\ pad.endIndex = pad.startIndex + 1
      /\ pad.endIndex < Len(g.points)
      /\ g.points[pad.startIndex + 1] = Vec(loc.x, loc.y)
      /\ g.points[pad.endIndex + 1] = Vec(loc.x + loc.width, loc.y)

\* C24: every call of generate yields at least one pad and at most numPads
\* (3 or 4) pads, and terrain.pads has exactly one entry per accepted pad
\* location
C24_PadCount ==
  IsGenerated =>
    /\ Generated.numPads \in {3, 4}
    /\ Len(Generated.pads) >= 1
    /\ Len(Generated.pads) <= Generated.numPads
    /\ Len(Generated.pads) = Len(Generated.padLocations)
    /\ \A i \in 1..Len(Generated.pads) : PadAt(Generated, i)
    /\ \A i \in 1..Len(Generated.pads), j \in 1..Len(Generated.pads) :
          i < j => Generated.pads[i].endIndex < Generated.pads[j].startIndex

\* four pads were asked for and only the first candidate was accepted
C24_Witness ==
  /\ IsGenerated
  /\ Generated.numPads = 4
  /\ Len(Generated.pads) = 1
  /\ PadAt(Generated, 1)

\* C25: for every generated terrain, any two distinct pads are at least
\* MIN_PAD_DISTANCE apart horizontally: the gap between the right end of the
\* left pad and the left end of the right pad is at least 100 px
C25_PadsApart ==
  IsGenerated =>
    \A i \in 1..Len(Generated.pads), j \in 1..Len(Generated.pads) :
       i < j =>
         Generated.points[Generated.pads[j].startIndex + 1].x
           - Generated.points[Generated.pads[i].endIndex + 1].x
             >= TERRAIN_CONSTANTS.MIN_PAD_DISTANCE

(***************************************************************************)
(* The custom-settings screen after the player has held the arrows: the    *)
(* selected item is any of the three values, Start or Cancel, and the      *)
(* values are those that steps from the defaults reach next to the ends of *)
(* their ranges                                                            *)
(* (gravity 1.62 + 0.1 k, or a multiple of 0.1 after a clamp; thrust       *)
(* 4860 + 100 k, or a multiple of 100; fuel 500 + 50 k).                   *)
(***************************************************************************)
CustomStarts ==
  {[gravity |-> g, thrust |-> 4860, initialFuel |-> 5000] :
     g \in {100, 102, 162, 992, 1000}}
  \cup {[gravity |-> 162, thrust |-> t, initialFuel |-> 5000] :
          t \in {1000, 1060, 9960, 10000}}
  \cup {[gravity |-> 162, thrust |-> 4860, initialFuel |-> f] :
          f \in {1000, 1500, 19500, 20000}}
  \cup {[gravity |-> 992, thrust |-> 1000, initialFuel |-> 1000],
        [gravity |-> 102, thrust |-> 10000, initialFuel |-> 20000]}

InitCustom ==
  /\ now = 500
  /\ lastFrame = 0
  /\ belowStart = FALSE
  /\ pressMoves = 0
  /\ scoreScreen = NoOver
  /\ input = NoInput
  /\ keys = {}
  /\ ticks = 0
  /\ advances = 0
  /\ terrain = 1
  /\ debris = << >>
  /\ storage = [present |-> FALSE, value |-> << >>]
  /\ pending = 0
  /\ hit = NoHit
  /\ trace = << >>
  /\ lander = NewLander
  /\ gameState = [NewGameState EXCEPT !.status = "SETTING_CUSTOM_DIFFICULTY",
                                      !.difficulty = "CUSTOM"]
  /\ \E c \in CustomStarts, idx \in 0..4 :
       /\ idx >= 3 => /\ c.gravity = DIFFICULTY_SETTINGS.CUSTOM.gravity
                      /\ c.thrust = DIFFICULTY_SETTINGS.CUSTOM.thrust
                      /\ c.initialFuel = DIFFICULTY_SETTINGS.CUSTOM.initialFuel
       /\ custom = calculateScoreMultiplier(
                     [DIFFICULTY_SETTINGS.CUSTOM
                        EXCEPT !.gravity = c.gravity,
                               !.thrust = c.thrust,
                               !.initialFuel = c.initialFuel])
       /\ gl = [NewGameLoop EXCEPT !.difficultySelectionIndex = 3,
                                   !.customSettingsIndex = idx,
                                   !.lastInputTime = 10]

SpecCustom == InitCustom /\ [][Next]_vars

InRange(range, v) == range.min <= v /\ v <= range.max

\* C26: after any sequence of custom-setting adjustments, CUSTOM.gravity
\* stays in [1.0, 10.0], CUSTOM.thrust in [1000, 10000], CUSTOM.initialFuel
\* in [100, 2000] and CUSTOM.scoreMultiplier in [0.1, 10.0], and the EASY,
\* NORMAL and HARD presets are never modified
C26_CustomInRange ==
  /\ InRange([min |-> 100, max |-> 1000], custom.gravity)
  /\ InRange([min |-> 1000, max |-> 10000], custom.thrust)
  /\ InRange([min |-> 1000, max |-> 20000], custom.initialFuel)
  /\ InRange([min |-> 1000, max |-> 100000], custom.scoreMultiplier)
  /\ custom.mass = DIFFICULTY_SETTINGS.CUSTOM.mass
  /\ \A d \in {"EASY", "NORMAL", "HARD"} :
        SettingsOf(World, d) = DIFFICULTY_SETTINGS[d]

\* a step to the right from 9.92 was clamped to 10.0 and the multiplier
\* to 10.0
C26_Witness ==
  /\ gameState.status = "SETTING_CUSTOM_DIFFICULTY"
  /\ gl.customSettingsIndex = 0
  /\ input.isRotatingRight
  /\ pressMoves >= 1
  /\ custom.gravity = 1000
  /\ custom.scoreMultiplier = 100000

\* C27: for any interleaving of start(), stop() and frame callbacks, at most
\* one frame callback is pending at any time: start() on a running loop
\* schedules nothing, and stop() followed by start() before the scheduled
\* callback has fired leaves no second callback chain
C27_OnePendingCallback == pending <= 1

(***************************************************************************)
(* The screens between two games: the custom-settings screen and the       *)
(* score screen of a game that has just ended.                             *)
(***************************************************************************)
InitScreens == InitCustom \/ InitOver

SpecScreens == InitScreens /\ [][Next]_vars

Menus == {"SELECTING_DIFFICULTY", "SETTING_CUSTOM_DIFFICULTY"}

\* a key that KeyboardInput reports is held
AnyFlag == \E f \in DOMAIN input : input[f]

\* the step ran an update that called resetGame
ResetRan == ticks' = ticks + 1 /\ Called(trace', "resetGame")

\* the step accepted no menu input
MenuUntouched ==
  /\ gameState' = gameState
  /\ custom' = custom
  /\ gl'.difficultySelectionIndex = gl.difficultySelectionIndex
  /\ gl'.customSettingsIndex = gl.customSettingsIndex
  /\ gl'.lastInputTime = gl.lastInputTime

\* C28: after resetGame, and after entering or cancelling the
\* custom-settings screen, no menu input is accepted until some tick
\* observes hasAnyInput = false: each of the three sets the latch, while the
\* latch is set no step changes the menus, and only a tick that finds no
\* key held clears it
C28_KeyReleaseLatch ==
  [][/\ ResetRan => gl'.waitForKeyRelease /\ gameState'.status \in Menus
     /\ (gameState.status \in Menus /\ gameState'.status \in Menus
           /\ gameState'.status # gameState.status) => gl'.waitForKeyRelease
     /\ gl.waitForKeyRelease => /\ gameState.status \in Menus
                                /\ MenuUntouched
     /\ (gl.waitForKeyRelease /\ ~gl'.waitForKeyRelease)
          => ticks' = ticks + 1 /\ ~AnyFlag]_vars

\* the custom-settings screen was cancelled, the key released, and the
\* screen entered again by a new press: the latch is set a second time
C28_Witness ==
  /\ gameState.status = "SETTING_CUSTOM_DIFFICULTY"
  /\ gl.waitForKeyRelease
  /\ input.isConfirm
  /\ gl.lastInputTime > 500
  /\ ticks >= 3

\* C29: while the status is LANDED or CRASHED, update ticks change none of
\* the craft's position, velocity and rotation, the fuel, or the score,
\* until a reset replaces the craft and the game state
C29_GameOverFreezes ==
  [][gameState.status \in GameOver =>
       IF ResetRan
       THEN /\ lander' = NewLander
            /\ gameState'.status = "SELECTING_DIFFICULTY"
            /\ gameState'.score = NewGameState.score
            /\ gameState'.fuel = NewGameState.fuel
       ELSE /\ lander' = lander
            /\ gameState'.fuel = gameState.fuel
            /\ gameState'.score = gameState.score
            /\ gameState'.status = gameState.status]_vars

\* every tick of the score screen so far ran with a key held, thrust now
C29_Witness ==
  /\ gameState.status \in GameOver
  /\ scoreScreen.since >= 0
  /\ ~scoreScreen.idle
  /\ input.isThrusting
  /\ Called(trace, "update")
  /\ ticks >= 2

\* C30: in every reachable state the debris manager holds at most 10
\* particles, and it holds any particle only while the status is CRASHED
\* (none in the menu states, in PLAYING or in LANDED)
C30_DebrisOnlyWhenCrashed ==
  /\ Len(debris) <= DEBRIS_BURST
  /\ debris # << >> => gameState.status = "CRASHED"

\* a crash has filled the manager and a tick of the score screen has run
C30_Witness ==
  /\ gameState.status = "CRASHED"
  /\ Len(debris) = DEBRIS_BURST
  /\ scoreScreen.since >= 0

=============================================================================
